---- MODULE Spec2Model ----
(***************************************************************************)
(* Hegemon: the application state machine (model.rs), the body layout of   *)
(* the render engine (view.rs) and the event loop (main.rs, terminal.rs).  *)
(* Indices are 0-based as in the source; the i-th element of a Rust Vec v  *)
(* is v[i + 1] here.                                                       *)
(***************************************************************************)
EXTENDS Integers, Sequences, FiniteSets, TLC

\* ------------------------------------------------------------------ bounds
\* Largest number of streams the providers return.
MaxStreams == 3
\* Largest terminal height (rows) the terminal reports.
MaxHeight == 8
\* Largest number of streams in the specifications of the event loop.
MaxLoopStreams == 1
\* Longest history a stream accumulates before the model stops ticking.
MaxHistory == 2
\* Most notifications buffered in the resize / terminate channels.
MaxPending == 1
\* Most calls of a rate wrapper that are followed.
MaxCalls == 4
\* Largest number of streams in the specification of sampling.
MaxSampleStreams == 2
\* Graph levels run from 0 to MaxLevel.
MaxLevel == 5
\* Decimal exponents of the quantities formatted run to 10^MaxExponent.
MaxExponent == 21
\* Largest decimal exponent of a quantity printed without a prefix.
MaxPlainExponent == 2
\* Largest precision format_quantity is called with.
MaxPrecision == 1
\* Durations of every whole number of seconds up to MaxSeconds are formatted.
MaxSeconds == 130
\* Fastest fan, in RPM.
MaxFanSpeed == 12000
\* Longest history StreamWrapper::render is called on.
MaxWindowHistory == 3
\* Widest graph StreamWrapper::render is called for.
MaxGraphWidth == 2
\* Widest terminal in the specification of the ticks.
MaxWidth == 70

\* ------------------------------------------------------- program constants
EXPANDED_GRAPH_HEIGHT == 5
\* Stand-in for 2^64, the modulus of usize arithmetic in a build without
\* overflow checks: larger than every row total and index of the model.
UsizeModulus == 1073741824
\* Bounds every stream of this model declares (as the CPU streams do).
StreamMin == 0
StreamMax == 100
\* format_width of the CPU streams: 3 digits, '.', 1 decimal, "%" (their
\* names, "CPU" and "CoreN", are not wider).
FormatWidth == 6
\* printed_width(STATS_LABEL)
StatsLabelWidth == 9

VARIABLES
    \* Application (model.rs:24-38)
    running, width, height, screen, streams,
    selection_index, scroll_index, scroll_anchor, interval_index,
    \* main (main.rs:36-91)
    pc,                \* position of main: select / reset / resample / render / retick / exited / panicked
    update,            \* the ticker bound to `update`
    interval_changed,  \* the local of the loop body
    arm,               \* the chan_select arm of the current (last) iteration
    event,             \* the input event received in it
    handled,           \* what handle returned for it
    out,               \* what the iteration has printed so far
    sample,            \* what stream.value() returned to the last call of update_streams
    \* Terminal (terminal.rs:32-38): notifications buffered in the channels
    resize, terminate,
    \* one closure of rate_calculator (network.rs:74-100)
    now,               \* the clock Instant::now() reads, in ms
    last_time, last_input,
    calls,             \* its calls so far: what `value` returned, when, and the result
    \* the free functions of view.rs and the format closure of stream.rs
    viewcall           \* the last call of one of them: its name, arguments and result

appvars == <<running, width, height, screen, streams, selection_index,
             scroll_index, scroll_anchor, interval_index>>
loopvars == <<pc, update, interval_changed, arm, event, handled, out, sample>>
chanvars == <<resize, terminate>>
ratevars == <<now, last_time, last_input, calls>>
viewvars == <<viewcall>>
vars == <<appvars, loopvars, chanvars, ratevars, viewvars>>

\* ------------------------------------------------------------ Option<f64>
None == [some |-> FALSE, finite |-> TRUE, v |-> 0]
Some(x) == [some |-> TRUE, finite |-> TRUE, v |-> x]
\* A present sample that is NaN or infinite.
NonFinite == [some |-> TRUE, finite |-> FALSE, v |-> 0]

\* ------------------------------------------------------------------ model.rs
\* Interval::new(seconds, tick_spacing), the catalog of Application::new.
intervals ==
    << [duration |-> 1, tick_spacing |-> 10], [duration |-> 2, tick_spacing |-> 10],
       [duration |-> 3, tick_spacing |-> 10], [duration |-> 5, tick_spacing |-> 12],
       [duration |-> 10, tick_spacing |-> 12], [duration |-> 30, tick_spacing |-> 10],
       [duration |-> 60, tick_spacing |-> 10], [duration |-> 300, tick_spacing |-> 12] >>

\* StreamWrapper::new
StreamWrapper_new ==
    [stream |-> [min |-> Some(StreamMin), max |-> Some(StreamMax)],
     values |-> <<>>, active |-> TRUE, expanded |-> FALSE]

\* Application::new(width, height, streams) with n streams.
Application_new(w, h, n) ==
    [running |-> TRUE, width |-> w, height |-> h, screen |-> "Main",
     streams |-> [i \in 1..n |-> StreamWrapper_new],
     selection_index |-> 0, scroll_index |-> 0, scroll_anchor |-> "Top",
     interval_index |-> 2]

\* The Application value held in the variables.
App ==
    [running |-> running, width |-> width, height |-> height, screen |-> screen,
     streams |-> streams, selection_index |-> selection_index,
     scroll_index |-> scroll_index, scroll_anchor |-> scroll_anchor,
     interval_index |-> interval_index]

\* Application::interval
interval(a) == intervals[a.interval_index + 1]

\* Positions (1-based, in self.streams) of the active streams, in order.
RECURSIVE ActivePositions(_, _)
ActivePositions(ss, i) ==
    IF i > Len(ss) THEN <<>>
    ELSE (IF ss[i].active THEN <<i>> ELSE <<>>) \o ActivePositions(ss, i + 1)

\* Application::active_streams
active_streams(a) ==
    LET pos == ActivePositions(a.streams, 1)
    IN [k \in 1..Len(pos) |-> a.streams[pos[k]]]

\* StreamWrapper::height as it would be if an expanded stream took the rows
\* of its graph only.
StreamHeight_graph_only(s) == IF s.expanded THEN EXPANDED_GRAPH_HEIGHT ELSE 1

\* StreamWrapper::height (view.rs)
StreamHeight(s) == IF s.expanded THEN 1 + EXPANDED_GRAPH_HEIGHT ELSE 1

\* usize subtraction x - y: exact when x >= y; otherwise the build decides,
\* a panic (overflow checks on) or the wrapped value (overflow checks off).
UsizeSub(x, y) ==
    IF x >= y THEN {[ok |-> TRUE, v |-> x - y]}
    ELSE {[ok |-> FALSE, v |-> 0], [ok |-> TRUE, v |-> x - y + UsizeModulus]}

Reverse(s) == [k \in 1..Len(s) |-> s[Len(s) + 1 - k]]

\* The `for stream in streams` loop of scroll_to_stream: how many streams of
\* `run`, taken in order, fit into `available` rows before one does not.
RECURSIVE CountFit(_, _)
CountFit(run, available) ==
    IF run = <<>> THEN 0
    ELSE IF StreamHeight(Head(run)) > available THEN 0
    ELSE 1 + CountFit(Tail(run), available - StreamHeight(Head(run)))

\* The (top_index, bottom_index) pair scroll_to_stream computes when the body
\* has `available` rows; valid is FALSE where the slice or the subtraction
\* of the source fails.
VisibleRange(a, available) ==
    LET active == active_streams(a)
        n == Len(active)
        sliceOk == IF a.scroll_anchor = "Top" THEN a.scroll_index <= n
                   ELSE a.scroll_index < n
        run == IF ~sliceOk THEN <<>>
               ELSE IF a.scroll_anchor = "Top" THEN SubSeq(active, a.scroll_index + 1, n)
               ELSE Reverse(SubSeq(active, 1, a.scroll_index + 1))
        counted == CountFit(run, available)
        \* Only count streams beyond the first
        stream_count == IF counted > 0 THEN counted - 1 ELSE 0
    IN  IF ~sliceOk THEN {[valid |-> FALSE, top |-> 0, bottom |-> 0]}
        ELSE IF a.scroll_anchor = "Top"
        THEN {[valid |-> TRUE, top |-> a.scroll_index, bottom |-> a.scroll_index + stream_count]}
        ELSE {[valid |-> d.ok, top |-> d.v, bottom |-> a.scroll_index] :
                d \in UsizeSub(a.scroll_index, stream_count)}

\* An outcome of a call on the Application: the value it leaves, and whether
\* the call panicked instead of returning.
Returned(a) == [app |-> a, panic |-> FALSE]
Panicked(a) == [app |-> a, panic |-> TRUE]

\* Application::scroll_to_stream: the set of outcomes.
scroll_to_stream(a, index) ==
    UNION { IF ~h.ok THEN {Panicked(a)}
            ELSE { IF ~r.valid THEN Panicked(a)
                   ELSE IF index < r.top
                   THEN Returned([a EXCEPT !.scroll_index = index, !.scroll_anchor = "Top"])
                   ELSE IF index > r.bottom
                   THEN Returned([a EXCEPT !.scroll_index = index, !.scroll_anchor = "Bottom"])
                   ELSE Returned(a)
                   : r \in VisibleRange(a, h.v) }
            : h \in UsizeSub(a.height, 2) }

\* ------------------------------------------------------------ input events
\* termion events the input thread decodes: the keys and wheel presses that
\* handle matches, one unbound key ("x") and one other mouse press.
Events == {"Up", "Down", "Space", "s", "+", "-", "q", "Esc",
           "WheelUp", "WheelDown", "x", "MouseLeft"}

\* What handle hands back: the Application it leaves, its bool result, or a panic.
Handled(a, r) == [app |-> a, panic |-> FALSE, result |-> r]
HandlePanicked(a) == [app |-> a, panic |-> TRUE, result |-> FALSE]
AfterScroll(outcomes) ==
    { IF o.panic THEN HandlePanicked(o.app) ELSE Handled(o.app, TRUE) : o \in outcomes }

\* Key::Up as it would be if it reported a change at index 0 too.
HandleUp_always_true(a) ==
    IF a.selection_index > 0
    THEN LET b == [a EXCEPT !.selection_index = a.selection_index - 1]
         IN AfterScroll(scroll_to_stream(b, b.selection_index))
    ELSE {Handled(a, TRUE)}

\* Key::Up on Screen::Main (model.rs:109-116)
HandleUp(a) ==
    IF a.selection_index > 0
    THEN LET b == [a EXCEPT !.selection_index = a.selection_index - 1]
         IN AfterScroll(scroll_to_stream(b, b.selection_index))
    ELSE {Handled(a, FALSE)}

\* Key::Down as it would be with the bound `selection_index < len`.
HandleDown_past_end(a) ==
    IF a.selection_index < Len(active_streams(a))
    THEN LET b == [a EXCEPT !.selection_index = a.selection_index + 1]
         IN AfterScroll(scroll_to_stream(b, b.selection_index))
    ELSE {Handled(a, FALSE)}

\* Key::Down on Screen::Main (model.rs:117-124)
HandleDown(a) ==
    UNION { IF ~last.ok THEN {HandlePanicked(a)}
            ELSE IF a.selection_index < last.v
            THEN LET b == [a EXCEPT !.selection_index = a.selection_index + 1]
                 IN AfterScroll(scroll_to_stream(b, b.selection_index))
            ELSE {Handled(a, FALSE)}
            : last \in UsizeSub(Len(active_streams(a)), 1) }

\* Key::Char(' ') on Screen::Main (model.rs:125-138)
HandleSpace(a) ==
    LET pos == ActivePositions(a.streams, 1)
    IN  IF a.selection_index >= Len(pos) THEN {HandlePanicked(a)}   \* unwrap of None
        ELSE LET p == pos[a.selection_index + 1]
                 b == [a EXCEPT !.streams[p].expanded = ~a.streams[p].expanded]
             IN AfterScroll(scroll_to_stream(b, b.selection_index))

\* Key::Char('+') as it would be with the bound `interval_index < intervals.len()`.
HandlePlus_off_by_one(a) ==
    IF a.interval_index < Len(intervals)
    THEN {Handled([a EXCEPT !.interval_index = a.interval_index + 1], TRUE)}
    ELSE {Handled(a, FALSE)}

\* Key::Char('+') on Screen::Main (model.rs:143-148)
HandlePlus(a) ==
    IF a.interval_index < Len(intervals) - 1
    THEN {Handled([a EXCEPT !.interval_index = a.interval_index + 1], TRUE)}
    ELSE {Handled(a, FALSE)}

\* Key::Char('-') on Screen::Main (model.rs:149-154)
HandleMinus(a) ==
    IF a.interval_index > 0
    THEN {Handled([a EXCEPT !.interval_index = a.interval_index - 1], TRUE)}
    ELSE {Handled(a, FALSE)}

\* The Main arm as it would be if the wheel moved the selection its own way:
\* wheel-up as Up, wheel-down as Down.
HandleMain_wheel_unaliased(a, e) ==
    CASE e = "Up" -> HandleUp(a)
      [] e = "Down" -> HandleDown(a)
      [] e = "Space" -> HandleSpace(a)
      [] e = "s" -> {Handled([a EXCEPT !.screen = "Streams"], TRUE)}
      [] e = "+" -> HandlePlus(a)
      [] e = "-" -> HandleMinus(a)
      [] e = "q" -> {Handled([a EXCEPT !.running = FALSE], TRUE)}
      [] e = "WheelUp" -> HandleUp(a)
      [] e = "WheelDown" -> HandleDown(a)
      [] OTHER -> {Handled(a, FALSE)}

\* Screen::Main arm of handle (model.rs:107-171)
HandleMain(a, e) ==
    CASE e = "Up" -> HandleUp(a)
      [] e = "Down" -> HandleDown(a)
      [] e = "Space" -> HandleSpace(a)
      [] e = "s" -> {Handled([a EXCEPT !.screen = "Streams"], TRUE)}
      [] e = "+" -> HandlePlus(a)
      [] e = "-" -> HandleMinus(a)
      [] e = "q" -> {Handled([a EXCEPT !.running = FALSE], TRUE)}
      [] e = "WheelUp" -> HandleDown(a)
      [] e = "WheelDown" -> HandleUp(a)
      [] OTHER -> {Handled(a, FALSE)}

\* The Streams arm as it would be if '+' were bound there as on Main.
HandleStreams_plus_bound(a, e) ==
    IF e = "Esc" THEN {Handled([a EXCEPT !.screen = "Main"], TRUE)}
    ELSE IF e = "+" THEN HandlePlus(a)
    ELSE {Handled(a, FALSE)}

\* Screen::Streams arm of handle (model.rs:173-192)
HandleStreams(a, e) ==
    IF e = "Esc" THEN {Handled([a EXCEPT !.screen = "Main"], TRUE)}
    ELSE {Handled(a, FALSE)}

\* Application::handle: the set of outcomes.
handle(a, e) ==
    IF a.screen = "Main" THEN HandleMain(a, e) ELSE HandleStreams(a, e)

\* Application::resize as it would be if it also dropped the histories.
resize_to_clearing(a, w, h) ==
    [a EXCEPT !.width = w, !.height = h,
              !.streams = [i \in 1..Len(a.streams) |-> [a.streams[i] EXCEPT !.values = <<>>]]]

\* Application::resize
resize_to(a, w, h) == [a EXCEPT !.width = w, !.height = h]

\* The assertions of update_streams as they would be without the one on max.
SampleAccepted_unchecked_max(s, value) ==
    value.some =>
        /\ value.finite
        /\ (s.stream.min.some => value.v >= s.stream.min.v)

\* The assertions of update_streams on one sampled value.
SampleAccepted(s, value) ==
    value.some =>
        /\ value.finite
        /\ (s.stream.min.some => value.v >= s.stream.min.v)
        /\ (s.stream.max.some => value.v <= s.stream.max.v)

\* stream.values.push(value) as it would be if only present samples were kept.
PushValue_present_only(s, value) ==
    IF value.some THEN [s EXCEPT !.values = Append(s.values, value)] ELSE s

\* stream.values.push(value) (model.rs:260)
PushValue(s, value) == [s EXCEPT !.values = Append(s.values, value)]

\* The `for stream in &mut self.streams` loop of update_streams from stream i
\* (1-based) on, the streams' samplers returning sampled[i]: an inactive
\* stream is skipped, an assertion that fails panics before the push and
\* leaves the pushes made for the streams before it.
RECURSIVE UpdateFrom(_, _, _)
UpdateFrom(a, sampled, i) ==
    IF i > Len(a.streams) THEN Returned(a)
    ELSE IF ~a.streams[i].active THEN UpdateFrom(a, sampled, i + 1)
    ELSE IF ~SampleAccepted(a.streams[i], sampled[i]) THEN Panicked(a)
    ELSE UpdateFrom([a EXCEPT !.streams[i] = PushValue(a.streams[i], sampled[i])],
                    sampled, i + 1)

\* Application::update_streams
update_streams(a, sampled) == UpdateFrom(a, sampled, 1)

\* The values `stream.stream.value()` (model.rs:248) returns in that call:
\* sampled[i] for the active streams up to the first whose assertion fails,
\* None where the sampler is not called.
Asked(a, sampled) ==
    [i \in 1..Len(a.streams) |->
        IF /\ a.streams[i].active
           /\ \A j \in 1..(i - 1) :
                a.streams[j].active => SampleAccepted(a.streams[j], sampled[j])
        THEN sampled[i] ELSE None]

\* reset_streams as it would be if it kept each stream's newest sample.
reset_streams_keep_newest(a) ==
    [a EXCEPT !.streams = [i \in 1..Len(a.streams) |->
        [a.streams[i] EXCEPT !.values =
            IF @ = <<>> THEN <<>> ELSE <<@[Len(@)]>>]]]

\* Application::reset_streams
reset_streams(a) ==
    [a EXCEPT !.streams = [i \in 1..Len(a.streams) |-> [a.streams[i] EXCEPT !.values = <<>>]]]

\* ------------------------------------------------------------------- view.rs
\* Number of lines StreamWrapper::render returns: the name line, and for an
\* expanded stream one line per graph row of `for i in (0..EXPANDED_GRAPH_HEIGHT).rev()`.
StreamWrapper_render(s, i) ==
    IF s.expanded
    THEN <<[stream |-> i, row |-> 0]>> \o [r \in 1..EXPANDED_GRAPH_HEIGHT |-> [stream |-> i, row |-> r]]
    ELSE <<[stream |-> i, row |-> 0]>>

\* The inner `for line in stream_lines` loop of Application::render: lines are
\* pushed (Top) or inserted at the front (Bottom) until max_lines are held.
RECURSIVE PushLines(_, _, _, _)
PushLines(lines, stream_lines, anchor, max_lines) ==
    IF stream_lines = <<>> \/ Len(lines) >= max_lines THEN lines
    ELSE PushLines(IF anchor = "Top" THEN Append(lines, Head(stream_lines))
                   ELSE <<Head(stream_lines)>> \o lines,
                   Tail(stream_lines), anchor, max_lines)

\* The 'outer loop of Application::render over `indices`.
RECURSIVE RenderStreams(_, _, _, _, _)
RenderStreams(lines, indices, active, anchor, max_lines) ==
    IF indices = <<>> \/ Len(lines) >= max_lines THEN lines
    ELSE LET i == Head(indices)
             rendered == StreamWrapper_render(active[i + 1], i)
             stream_lines == IF anchor = "Bottom" THEN Reverse(rendered) ELSE rendered
         IN RenderStreams(PushLines(lines, stream_lines, anchor, max_lines),
                          Tail(indices), active, anchor, max_lines)

Max(x, y) == IF x >= y THEN x ELSE y

\* `indices` of Application::render.
RenderIndices(a) ==
    LET n == Len(active_streams(a))
    IN  IF a.scroll_anchor = "Top"
        THEN [k \in 1..Max(n - a.scroll_index, 0) |-> a.scroll_index + k - 1]
        ELSE [k \in 1..(a.scroll_index + 1) |-> a.scroll_index + 1 - k]

\* Application::render on Screen::Main indexes streams[i] for every index it
\* visits: it panics when the first index is outside the active list.
RenderPanics(a) ==
    /\ a.screen = "Main"
    /\ \E k \in 1..Len(RenderIndices(a)) : RenderIndices(a)[k] >= Len(active_streams(a))

\* The stream lines of the body that Application::render emits on
\* Screen::Main, top to bottom (the empty lines that fill the body are left out).
RenderBody(a) ==
    RenderStreams(<<>>, RenderIndices(a), active_streams(a), a.scroll_anchor,
                  Max(a.height, 3) - 2)

\* Application::name_width
name_width(a) == IF Len(active_streams(a)) = 0 THEN 0 ELSE FormatWidth

\* Application::value_width
value_width(a) ==
    Max(IF Len(active_streams(a)) = 0 THEN 0 ELSE FormatWidth, StatsLabelWidth)

\* graph_width of Application::render
graph_width(a) ==
    Max(a.width, name_width(a) + 3 + value_width(a)) - name_width(a) - value_width(a) - 2

\* The glyphs of the graph: BARS[k] is the bar of k eighths.
DOT == "U+2022"
BARS == <<"U+2581", "U+2582", "U+2583", "U+2584", "U+2585", "U+2586", "U+2587", "U+2588">>

\* `values` as it would be read from the start of the history.
GraphWindow_oldest(s, gw) ==
    [c \in 1..gw |-> IF c <= Len(s.values) THEN s.values[c] ELSE None]

\* `values` of StreamWrapper::render: the newest gw entries of the history,
\* oldest first, missing history positions filled with None.
GraphWindow(s, gw) ==
    [c \in 1..gw |->
        LET i == gw + 1 - c
        IN  IF i <= Len(s.values) THEN s.values[Len(s.values) - i + 1] ELSE None]

\* `numbers` of StreamWrapper::render, as a set.
Numbers(window) == { window[c].v : c \in { d \in 1..Len(window) : window[d].some } }

\* numbers_min and numbers_max: the fold from NaN yields NaN for no numbers.
numbers_min(window) ==
    IF Numbers(window) = {} THEN NonFinite
    ELSE Some(CHOOSE x \in Numbers(window) : \A y \in Numbers(window) : x <= y)

numbers_max(window) ==
    IF Numbers(window) = {} THEN NonFinite
    ELSE Some(CHOOSE x \in Numbers(window) : \A y \in Numbers(window) : x >= y)

\* `min` and `max` of StreamWrapper::render (view.rs:295-296)
graph_min(s, window) == IF s.stream.min.some THEN s.stream.min ELSE numbers_min(window)
graph_max(s, window) == IF s.stream.max.some THEN s.stream.max ELSE numbers_max(window)

\* bar_index as it would be with the bucket rounded down.
bar_index_floor(number, min, max) ==
    IF min.finite /\ max.finite /\ min.v < max.v
    THEN LET bucket == IF number <= min.v THEN 0
                       ELSE ((number - min.v) * Len(BARS)) \div (max.v - min.v)
         IN  IF bucket = 0 THEN 0 ELSE bucket - 1
    ELSE 0

\* bar_index of the `graph` closure for a present number (view.rs:244-254):
\* ceil(level * BARS.len()) less one, 0 for bucket 0 and where min < max
\* does not hold (a NaN compares false).
bar_index(number, min, max) ==
    IF min.finite /\ max.finite /\ min.v < max.v
    THEN LET bucket == IF number <= min.v THEN 0
                       ELSE ((number - min.v) * Len(BARS) + (max.v - min.v) - 1)
                                \div (max.v - min.v)
         IN  IF bucket = 0 THEN 0 ELSE bucket - 1
    ELSE 0

\* `symbol` of the `graph` closure (view.rs:242-258)
GraphSymbol_bar_for_absent(value, min, max) ==
    IF value.some THEN BARS[bar_index(value.v, min, max) + 1] ELSE BARS[1]

GraphSymbol(value, min, max) ==
    IF value.some THEN BARS[bar_index(value.v, min, max) + 1] ELSE DOT

\* The symbols of the graph of a collapsed stream, left to right.
CollapsedCells(s, gw) ==
    LET window == GraphWindow(s, gw)
    IN  [c \in 1..gw |-> GraphSymbol(window[c], graph_min(s, window), graph_max(s, window))]

\* The symbols of graph row i of an expanded stream (view.rs:334-355). Row
\* bounds and values are held times EXPANDED_GRAPH_HEIGHT, which keeps
\* row_height = (max - min) / EXPANDED_GRAPH_HEIGHT whole.
RowCells(s, gw, i) ==
    LET window == GraphWindow(s, gw)
        min == graph_min(s, window)
        max == graph_max(s, window)
        ranged == min.finite /\ max.finite
        row_min == IF ranged THEN Some(EXPANDED_GRAPH_HEIGHT * min.v + (max.v - min.v) * i)
                   ELSE NonFinite
        row_max == IF ranged THEN Some(row_min.v + (max.v - min.v)) ELSE NonFinite
        row_value(v) ==
            IF ~v.some THEN None
            ELSE IF ranged /\ EXPANDED_GRAPH_HEIGHT * v.v < row_min.v THEN None
            ELSE IF ranged /\ EXPANDED_GRAPH_HEIGHT * v.v > row_max.v THEN Some(row_max.v)
            ELSE Some(EXPANDED_GRAPH_HEIGHT * v.v)
    IN  [c \in 1..gw |-> GraphSymbol(row_value(window[c]), row_min, row_max)]

\* `numbers` of StreamWrapper::render (view.rs:289): the present values of
\* the window, oldest first.
RECURSIVE numbers(_)
numbers(window) ==
    IF window = <<>> THEN <<>>
    ELSE IF Head(window).some THEN <<Head(window).v>> \o numbers(Tail(window))
    ELSE numbers(Tail(window))

\* `.sum::<f64>()`
RECURSIVE Sum(_)
Sum(seq) == IF seq = <<>> THEN 0 ELSE Head(seq) + Sum(Tail(seq))

\* numbers_avg as it would be averaged over the columns of the graph.
numbers_avg_per_column(window) ==
    [finite |-> Len(window) > 0, n |-> Sum(numbers(window)), d |-> Len(window)]

\* numbers_avg (view.rs:293): the quotient sum / len, held as the fraction
\* n / d; without numbers it is 0.0 / 0.0, which is NaN.
numbers_avg(window) ==
    [finite |-> numbers(window) # <<>>, n |-> Sum(numbers(window)), d |-> Len(numbers(window))]

\* The texts StreamWrapper::render puts around the graph. What stream.format
\* prints for the f64 n / d is held as that fraction; a String is the
\* sequence of its texts, String::new() the empty one.
Formatted(n, d) == [text |-> "format", n |-> n, d |-> d]
STATS_LABEL == [text |-> "lo/hi/avg", n |-> 0, d |-> 1]
StreamName == [text |-> "name", n |-> 0, d |-> 1]

\* value_string of StreamWrapper::render (view.rs:298-302)
value_string(window) ==
    IF numbers(window) = <<>> THEN <<>>
    ELSE <<Formatted(numbers(window)[Len(numbers(window))], 1)>>

\* The lines StreamWrapper::render returns (view.rs:304-422) for a graph of
\* gw columns: per line the text left of the graph, the symbols of the graph
\* and the text right of it. The first line holds the name on the left; in
\* an expanded stream the description takes the place of its graph.
StreamWrapper_lines(s, gw) ==
    LET window == GraphWindow(s, gw)
        min == graph_min(s, window)
        max == graph_max(s, window)
        ranged == min.finite /\ max.finite
        min_string == IF ranged THEN <<Formatted(min.v, 1)>> ELSE <<>>
        mid_string == IF ranged THEN <<Formatted(min.v + max.v, 2)>> ELSE <<>>
        max_string == IF ranged THEN <<Formatted(max.v, 1)>> ELSE <<>>
        stats == /\ numbers_min(window).finite
                 /\ numbers_max(window).finite
                 /\ numbers_avg(window).finite
        stats_label == IF stats THEN <<STATS_LABEL>> ELSE <<>>
        low_string == IF stats THEN <<Formatted(numbers_min(window).v, 1)>> ELSE <<>>
        high_string == IF stats THEN <<Formatted(numbers_max(window).v, 1)>> ELSE <<>>
        avg_string ==
            IF stats THEN <<Formatted(numbers_avg(window).n, numbers_avg(window).d)>> ELSE <<>>
        y_mid == EXPANDED_GRAPH_HEIGHT \div 2
        y_max == EXPANDED_GRAPH_HEIGHT - 1
        left_axis(y) == IF y = 0 THEN max_string
                        ELSE IF y = y_mid THEN mid_string
                        ELSE IF y = y_max THEN min_string
                        ELSE <<>>
        right_axis(y) == IF y = y_max - 3 THEN stats_label
                         ELSE IF y = y_max - 2 THEN low_string
                         ELSE IF y = y_max - 1 THEN high_string
                         ELSE IF y = y_max THEN avg_string
                         ELSE <<>>
    IN  IF s.expanded
        THEN <<[left |-> <<StreamName>>, graph |-> <<>>, right |-> value_string(window)]>>
             \o [k \in 1..EXPANDED_GRAPH_HEIGHT |->
                    [left |-> left_axis(k - 1),
                     graph |-> RowCells(s, gw, EXPANDED_GRAPH_HEIGHT - k),
                     right |-> right_axis(k - 1)]]
        ELSE <<[left |-> <<StreamName>>, graph |-> CollapsedCells(s, gw),
                right |-> value_string(window)]>>

\* ------------------------------------------------ view.rs: format_quantity
\* An f64 quantity is held as a decimal m * 10^e with a whole mantissa m, so
\* that scaling by a power of 1000 and rounding to a precision are exact.
Quantity(m, e) == [m |-> m, e |-> e]

RECURSIVE Pow10(_)
Pow10(n) == IF n = 0 THEN 1 ELSE 10 * Pow10(n - 1)

\* The number of decimal digits of a natural number.
RECURSIVE Digits(_)
Digits(n) == IF n < 10 THEN 1 ELSE 1 + Digits(n \div 10)

Abs(n) == IF n < 0 THEN 0 - n ELSE n

\* n / d rounded to the nearest whole number, a tie to the even one, as
\* {:.*} rounds the decimal expansion of its argument.
RoundHalfEven(n, d) ==
    LET q == n \div d
        r == n % d
    IN  IF 2 * r < d THEN q
        ELSE IF 2 * r > d THEN q + 1
        ELSE IF q % 2 = 0 THEN q ELSE q + 1

\* m * 10^k rounded to a whole number, for m >= 0.
ScaleRound(m, k) ==
    IF m = 0 THEN 0
    ELSE IF k >= 0 THEN m * Pow10(k)
    ELSE IF 0 - k > Digits(m) THEN 0
    ELSE RoundHalfEven(m, Pow10(0 - k))

\* format!("{:.*}", precision, x) for x = quantity / 10^(3 * magnitude): the
\* sign, the digits before the point as a number, and the `precision`
\* digits after it as a number.
Fixed(quantity, magnitude, precision) ==
    LET r == ScaleRound(Abs(quantity.m), quantity.e - 3 * magnitude + precision)
    IN  [negative |-> quantity.m < 0,
         whole |-> r \div Pow10(precision),
         frac |-> r % Pow10(precision),
         fraclen |-> precision]

\* The first four digits of n, or n when it has fewer.
RECURSIVE LeadingFour(_)
LeadingFour(n) == IF n < 10000 THEN n ELSE LeadingFour(n \div 10)

\* number.starts_with("1000")
StartsWith1000(number) == ~number.negative /\ LeadingFour(number.whole) = 1000

\* floor(log10(|quantity|) / 3) for quantity # 0
FloorLog1000(quantity) == (Digits(Abs(quantity.m)) - 1 + quantity.e) \div 3

\* `magnitude` of format_quantity (view.rs:461-472)
format_magnitude(quantity, use_prefix, precision) ==
    IF use_prefix /\ quantity.m # 0
    THEN LET magnitude == FloorLog1000(quantity)
         IN  IF StartsWith1000(Fixed(quantity, magnitude, precision))
             THEN magnitude + 1 ELSE magnitude
    ELSE 0

\* The prefix tables of format_quantity (view.rs:476-480); U+00B5 is the
\* micro sign.
PositivePrefixes == <<"k", "M", "G", "T", "P", "E">>
NegativePrefixes == <<"m", "U+00B5", "n", "p", "f", "a">>

\* `prefix` as it would be if a magnitude past the tables took their last entry.
format_prefix_saturating(magnitude) ==
    IF magnitude # 0
    THEN LET prefixes == IF magnitude > 0 THEN PositivePrefixes ELSE NegativePrefixes
             index == Abs(magnitude) - 1
         IN  IF index < Len(prefixes) THEN prefixes[index + 1] ELSE prefixes[Len(prefixes)]
    ELSE ""

\* `prefix` of format_quantity (view.rs:474-490)
format_prefix(magnitude) ==
    IF magnitude # 0
    THEN LET prefixes == IF magnitude > 0 THEN PositivePrefixes ELSE NegativePrefixes
             index == Abs(magnitude) - 1
         IN  IF index < Len(prefixes) THEN prefixes[index + 1] ELSE "?"
    ELSE ""

\* Regex \.?0+$ applied to a number that has digits after the point: the
\* trailing zeros go, and the point with them when nothing is left.
RECURSIVE StripZeros(_)
StripZeros(number) ==
    IF number.fraclen > 0 /\ number.frac % 10 = 0
    THEN StripZeros([number EXCEPT !.frac = number.frac \div 10,
                                   !.fraclen = number.fraclen - 1])
    ELSE number

\* format_quantity (view.rs:453-501), styles left out: the number, the
\* prefix and the unit it prints, in this order.
format_quantity(quantity, unit, use_prefix, precision) ==
    LET magnitude == format_magnitude(quantity, use_prefix, precision)
        number == Fixed(quantity, magnitude, precision)
    IN  [number |-> IF precision > 0 THEN StripZeros(number) ELSE number,
         prefix |-> format_prefix(magnitude),
         unit |-> unit]

\* printed_width of a printed number: sign, digits, point and decimals.
NumberWidth(number) ==
    (IF number.negative THEN 1 ELSE 0) + Digits(number.whole)
        + (IF number.fraclen > 0 THEN 1 + number.fraclen ELSE 0)

\* printed_width of what format_quantity returns; a unit is the sequence of
\* its characters.
QuantityWidth(formatted) ==
    NumberWidth(formatted.number) + (IF formatted.prefix = "" THEN 0 ELSE 1)
        + Len(formatted.unit)

\* ------------------------------------------------ view.rs: format_duration
\* A component of a printed duration: a number and its unit. Hours and
\* minutes are whole; the seconds are milliseconds / 1000.0, printed with
\* the decimals the quotient has (none for a whole number of seconds).
DurationPart(millis, factor, unit) ==
    [whole |-> millis \div factor, millis |-> IF unit = "s" THEN millis % factor ELSE 0,
     unit |-> unit]

\* format_duration as it would be without `milliseconds %= factor`.
format_duration_no_remainder(milliseconds) ==
    IF milliseconds = 0 THEN << DurationPart(0, 1000, "s") >>
    ELSE (IF milliseconds >= 3600000
          THEN << DurationPart(milliseconds, 3600000, "h") >> ELSE <<>>)
         \o (IF milliseconds >= 60000
             THEN << DurationPart(milliseconds, 60000, "m") >> ELSE <<>>)
         \o (IF milliseconds > 0
             THEN << DurationPart(milliseconds, 1000, "s") >> ELSE <<>>)

\* format_duration (view.rs:503-534), styles left out: the components it
\* prints, in order.
format_duration(milliseconds) ==
    IF milliseconds = 0 THEN << DurationPart(0, 1000, "s") >>
    ELSE LET after_h == IF milliseconds >= 3600000 THEN milliseconds % 3600000
                        ELSE milliseconds
             after_m == IF after_h >= 60000 THEN after_h % 60000 ELSE after_h
         IN  (IF milliseconds >= 3600000
              THEN << DurationPart(milliseconds, 3600000, "h") >> ELSE <<>>)
             \o (IF after_h >= 60000
                 THEN << DurationPart(after_h, 60000, "m") >> ELSE <<>>)
             \o (IF after_m > 0
                 THEN << DurationPart(after_m, 1000, "s") >> ELSE <<>>)

\* ------------------------------------------------ stream.rs and the providers
\* format_width of Stream::new (stream.rs:100-110)
Stream_format_width(unit, digits_before_decimal, precision, signed) ==
    (IF signed THEN 1 ELSE 0)
        + (IF digits_before_decimal.some THEN digits_before_decimal.v ELSE 3)
        + (IF precision > 0 THEN 1 + precision ELSE 0)
        + (IF ~digits_before_decimal.some THEN 1 ELSE 0)
        + Len(unit)

\* Stream::new (stream.rs:68-112); name, description and sampler left out.
Stream_new(min, max, unit, digits_before_decimal, precision, signed) ==
    [min |-> min, max |-> max, unit |-> unit,
     use_prefix |-> ~digits_before_decimal.some,
     precision |-> precision,
     format_width |-> Stream_format_width(unit, digits_before_decimal, precision, signed)]

\* SimpleStream::format: the closure Stream::new builds (stream.rs:89-98)
Stream_format(stream, value) ==
    format_quantity(value, stream.unit, stream.use_prefix, stream.precision)

\* The streams of the providers: CPU and CoreN (cpu.rs:31-54, 60-83), Mem
\* and Swap (memory.rs:31-68, on a machine with 16 GB), Temp
\* (temperature.rs:51-61), Fan (fan.rs:35-46), Rx and Tx (network.rs:34-65).
cpu_stream ==
    Stream_new(Some(Quantity(StreamMin, 0)), Some(Quantity(StreamMax, 0)), <<"%">>,
               Some(3), 1, FALSE)
memory_stream ==
    Stream_new(Some(Quantity(0, 0)), Some(Quantity(16, 9)), <<"B">>, None, 1, FALSE)
temperature_stream == Stream_new(None, None, <<"U+00B0", "C">>, Some(3), 1, TRUE)
fan_stream == Stream_new(None, None, <<"R", "P", "M">>, Some(4), 0, FALSE)
network_stream == Stream_new(Some(Quantity(0, 0)), None, <<"B">>, None, 1, FALSE)

\* ------------------------------------------------ view.rs: the frame
\* printed_width of what format_duration returns: per component its digits,
\* the decimals of a fraction of a second, and the unit.
DurationWidth(parts) ==
    LET decimals(millis) == IF millis = 0 THEN 0
                            ELSE IF millis % 100 = 0 THEN 2
                            ELSE IF millis % 10 = 0 THEN 3 ELSE 4
        part_width(part) == Digits(part.whole) + decimals(part.millis) + 1
        RECURSIVE total(_)
        total(k) == IF k = 0 THEN 0 ELSE total(k - 1) + part_width(parts[k])
    IN  total(Len(parts))

\* MenuItem::new; the keys of an item are the sequence of its characters.
MenuItem_new(keys, label) == [keys |-> keys, label |-> label]

\* The menus Application::new installs (model.rs:44-67): left and right items.
menus(s) ==
    IF s = "Main"
    THEN [left |-> << MenuItem_new(<<"U+1F805", "U+1F807">>, "Select"),
                      MenuItem_new(<<"S", "p", "a", "c", "e">>, "Expand"),
                      MenuItem_new(<<"S">>, "Streams"),
                      MenuItem_new(<<"+", "-">>, "Interval") >>,
          right |-> << MenuItem_new(<<"Q">>, "Quit") >>]
    ELSE [left |-> << MenuItem_new(<<"U+1F805", "U+1F807">>, "Select"),
                      MenuItem_new(<<"S", "p", "a", "c", "e">>, "Toggle"),
                      MenuItem_new(<<"+", "-">>, "Reorder") >>,
          right |-> << MenuItem_new(<<"E", "s", "c">>, "Done") >>]

\* printed_width of MenuItem::render (view.rs:434-449): the two half blocks
\* around the keys, and the label.
MenuItem_width(item) == 1 + Len(item.keys) + 1 + Len(item.label)

\* printed_width of the items joined by two spaces (view.rs:154-159).
RECURSIVE MenuWidth(_)
MenuWidth(items) ==
    IF Len(items) = 0 THEN 0
    ELSE IF Len(items) = 1 THEN MenuItem_width(items[1])
    ELSE MenuItem_width(items[1]) + 2 + MenuWidth(Tail(items))

\* menu_width of Application::render (view.rs:161, 171)
menu_width(a) ==
    MenuWidth(menus(a.screen).left) + 2 + MenuWidth(menus(a.screen).right) + 1
        + (IF a.screen = "Main"
           THEN 1 + DurationWidth(format_duration(1000 * interval(a).duration))
           ELSE 0)

\* printed_width of the bottom bar (view.rs:152-179): the menus, on
\* Screen::Main the interval, the gaps, and the padding, which is there
\* only if menu_width < self.width.
BottomBarWidth(a) ==
    menu_width(a) + (IF menu_width(a) < a.width THEN a.width - menu_width(a) ELSE 0)

\* `width` of Application::render on Screen::Main (view.rs:47)
render_width(a) == Max(a.width, name_width(a) + 3 + value_width(a))

\* first_tick_padding as it would be with the width of the graph in place of
\* its last column.
first_tick_padding_wide(a) ==
    name_width(a) + 1 + (graph_width(a) - ((graph_width(a) - 1) \div interval(a).tick_spacing) * interval(a).tick_spacing)

\* full_intervals and first_tick_padding (view.rs:53-54)
full_intervals(a) == (graph_width(a) - 1) \div interval(a).tick_spacing
first_tick_padding(a) ==
    name_width(a) + 1 + (graph_width(a) - 1 - full_intervals(a) * interval(a).tick_spacing)

\* The tick labels of the top bar, left to right (view.rs:60-65).
TickLabels(a) ==
    [k \in 1..full_intervals(a) |->
        format_duration(1000 * interval(a).duration
                            * ((full_intervals(a) + 1 - k) * interval(a).tick_spacing))]

\* pad_right(time_string, tick_spacing) subtracts the printed width of the
\* label from tick_spacing: a label that is wider ends render.
TopBarPanics(a) ==
    /\ a.screen = "Main"
    /\ \E k \in 1..full_intervals(a) :
          DurationWidth(TickLabels(a)[k]) > interval(a).tick_spacing

\* printed_width of the top bar (view.rs:56-68)
TopBarWidth(a) ==
    first_tick_padding(a) + full_intervals(a) * interval(a).tick_spacing
        + Len("Now") + (value_width(a) - 1)

\* printed_width of a stream line (view.rs:316-326, 385-400) and of an
\* empty line of the body (view.rs:125-133).
StreamLineWidth(a) == name_width(a) + 1 + graph_width(a) + 1 + value_width(a)
EmptyLineWidth(a) ==
    first_tick_padding(a) + full_intervals(a) * interval(a).tick_spacing
        + 1 + (1 + value_width(a))

\* The frame Application::render returns (view.rs:39-182): the printed
\* width of each of its lines, top to bottom.
Frame(a) ==
    IF a.screen = "Main"
    THEN LET max_lines == Max(a.height, 3) - 2
             lines == Len(RenderBody(a))
         IN  <<TopBarWidth(a)>>
             \o [k \in 1..lines |-> StreamLineWidth(a)]
             \o [k \in 1..(max_lines - lines) |-> EmptyLineWidth(a)]
             \o <<BottomBarWidth(a)>>
    ELSE <<a.width>>
         \o [k \in 1..(Max(a.height, 2) - 2) |-> a.width]
         \o <<BottomBarWidth(a)>>

\* Screen columns (0 = leftmost) of Application::render on Screen::Main.
\* The top bar is first_tick_padding blanks, then the labels for
\* i = full_intervals down to 1, each padded to tick_spacing columns, then
\* "Now" (view.rs:56-68): where the label of i * tick_spacing and "Now" start.
LabelColumn(a, i) ==
    first_tick_padding(a) + (full_intervals(a) - i) * interval(a).tick_spacing
NowColumn(a) == first_tick_padding(a) + full_intervals(a) * interval(a).tick_spacing

\* A stream line is the name padded to name_width, a blank, and the graph
\* (view.rs:318-319, 385-393): where column i of the graph is printed.
GraphColumn(a, i) == name_width(a) + 1 + i

\* The columns the `graph` closure draws as tick intersections (view.rs:260).
GraphTickColumns(a) ==
    { GraphColumn(a, i) : i \in { j \in 0..(graph_width(a) - 1) :
                                    ((graph_width(a) - 1) - j) % interval(a).tick_spacing = 0 } }

\* The columns of the ticks of an empty line of the body (view.rs:123-133).
EmptyLineTickColumns(a) ==
    { first_tick_padding(a) + j * interval(a).tick_spacing : j \in 0..full_intervals(a) }

\* ------------------------------------------------------------------- main.rs
\* chan::tick(duration): a ticker that has not fired yet.
tick(duration) == [period |-> duration, ready |-> FALSE]

SetApp(a) ==
    /\ running' = a.running
    /\ width' = a.width
    /\ height' = a.height
    /\ screen' = a.screen
    /\ streams' = a.streams
    /\ selection_index' = a.selection_index
    /\ scroll_index' = a.scroll_index
    /\ scroll_anchor' = a.scroll_anchor
    /\ interval_index' = a.interval_index

\* terminal.print(application.render(&theme)) as the last statement of an arm:
\* the frame is printed and the loop waits again, or render panics.
PrintRender(a, printed) ==
    IF RenderPanics(a)
    THEN /\ pc' = "panicked"
         /\ out' = printed
    ELSE /\ pc' = "select"
         /\ out' = Append(printed, "frame")

\* main.rs:41-48: update_streams on the new Application a, the first frame,
\* the ticker; the state in which the loop first waits.
\* No function of view.rs has been called on its own yet. (Arguments and
\* results are records, named as the source names them.)
NoCall == [f |-> "none", args |-> [none |-> TRUE], result |-> [none |-> TRUE]]

Started(a, sampled) ==
    LET o == update_streams(a, sampled)
    IN  /\ running = o.app.running
        /\ width = o.app.width
        /\ height = o.app.height
        /\ screen = o.app.screen
        /\ streams = o.app.streams
        /\ selection_index = o.app.selection_index
        /\ scroll_index = o.app.scroll_index
        /\ scroll_anchor = o.app.scroll_anchor
        /\ interval_index = o.app.interval_index
        /\ pc = IF o.panic \/ RenderPanics(o.app) THEN "panicked" ELSE "select"
        /\ out = IF o.panic \/ RenderPanics(o.app) THEN <<>> ELSE <<"frame">>
        /\ update = tick(interval(o.app).duration)
        /\ interval_changed = FALSE
        /\ arm = "none"
        /\ event = "none"
        /\ handled = FALSE
        /\ sample = Asked(a, sampled)
        /\ resize = 0
        /\ terminate = 0
        /\ now = 0
        /\ last_time = now
        /\ last_input = None
        /\ calls = <<>>
        /\ viewcall = NoCall

\* main.rs:37-48 for n streams, a terminal of w x h and the first samples.
InitWith(ns, ws, hs, samples) ==
    \E n \in ns, w \in ws, h \in hs :
      \E sampled \in [1..n -> samples] :
        Started(Application_new(w, h, n), sampled)

\* The input arm as it would be if it rendered whatever handle returned.
Dispatch_always_render(o) ==
    IF ~o.app.running
    THEN /\ pc' = "exited"
         /\ out' = <<>>
    ELSE IF o.app.interval_index # interval_index
    THEN /\ pc' = "reset"
         /\ out' = <<>>
    ELSE PrintRender(o.app, <<>>)

\* The input arm as it would be without the `break` on !application.running.
Dispatch_no_break(o) ==
    IF ~o.result
    THEN /\ pc' = "select"
         /\ out' = <<"bell">>
    ELSE IF o.app.interval_index # interval_index
    THEN /\ pc' = "reset"
         /\ out' = <<>>
    ELSE PrintRender(o.app, <<>>)

\* What the input arm does with the outcome o of handle (main.rs:58-71),
\* up to the point where it has printed, has left the loop, or is about to
\* call reset_streams.
Dispatch(o) ==
    IF ~o.result
    THEN /\ pc' = "select"
         /\ out' = <<"bell">>
    ELSE IF ~o.app.running
    THEN /\ pc' = "exited"
         /\ out' = <<>>
    ELSE IF o.app.interval_index # interval_index
    THEN /\ pc' = "reset"
         /\ out' = <<>>
    ELSE PrintRender(o.app, <<>>)

\* input.recv() -> event (main.rs:55-72)
InputRecv(e) ==
    /\ pc = "select"
    /\ arm' = "input"
    /\ event' = e
    /\ interval_changed' = FALSE
    /\ UNCHANGED <<update, sample, resize, terminate, ratevars, viewvars>>
    /\ \E o \in handle(App, e) :
         IF o.panic
         THEN /\ pc' = "panicked"
              /\ out' = <<>>
              /\ handled' = FALSE
              /\ UNCHANGED appvars
         ELSE /\ SetApp(o.app)
              /\ handled' = o.result
              /\ Dispatch(o)

\* application.reset_streams() (main.rs:63)
ResetStreams ==
    /\ pc = "reset"
    /\ SetApp(reset_streams(App))
    /\ pc' = "resample"
    /\ UNCHANGED <<update, interval_changed, arm, event, handled, out, sample, resize, terminate, ratevars, viewvars>>

\* application.update_streams(); interval_changed = true (main.rs:64-65)
Resample(sampled) ==
    /\ pc = "resample"
    /\ LET o == update_streams(App, sampled)
       IN  /\ SetApp(o.app)
           /\ IF o.panic
              THEN /\ pc' = "panicked"
                   /\ UNCHANGED interval_changed
              ELSE /\ interval_changed' = TRUE
                   /\ pc' = "render"
    /\ sample' = Asked(App, sampled)
    /\ UNCHANGED <<update, arm, event, handled, out, resize, terminate, ratevars, viewvars>>

\* terminal.print(application.render(&theme)) of the input arm (main.rs:67)
Render ==
    /\ pc = "render"
    /\ IF RenderPanics(App)
       THEN pc' = "panicked" /\ out' = out
       ELSE pc' = "retick" /\ out' = Append(out, "frame")
    /\ UNCHANGED <<appvars, update, interval_changed, arm, event, handled, sample, resize, terminate, ratevars, viewvars>>

\* main.rs:88 as it would be if the old ticker were kept.
NewTicker_kept(a) == update

\* The ticker main.rs:88 binds to `update`.
NewTicker(a) == tick(interval(a).duration)

\* if interval_changed { update = chan::tick(...) } (main.rs:84-89)
Retick ==
    /\ pc = "retick"
    /\ update' = IF interval_changed THEN NewTicker(App) ELSE update
    /\ pc' = "select"
    /\ UNCHANGED <<appvars, interval_changed, arm, event, handled, out, sample, resize, terminate, ratevars, viewvars>>

\* resize.recv() (main.rs:73-77); terminal.size() answers (w, h).
ResizeRecv(w, h) ==
    /\ pc = "select"
    /\ resize > 0
    /\ resize' = resize - 1
    /\ arm' = "resize"
    /\ event' = "none"
    /\ handled' = FALSE
    /\ interval_changed' = FALSE
    /\ SetApp(resize_to(App, w, h))
    /\ PrintRender(resize_to(App, w, h), <<>>)
    /\ UNCHANGED <<update, sample, terminate, ratevars, viewvars>>

\* update.recv() (main.rs:78-81)
UpdateRecv(sampled) ==
    /\ pc = "select"
    /\ update.ready
    /\ \A i \in 1..Len(streams) : Len(streams[i].values) < MaxHistory
    /\ update' = [update EXCEPT !.ready = FALSE]
    /\ arm' = "update"
    /\ event' = "none"
    /\ handled' = FALSE
    /\ interval_changed' = FALSE
    /\ LET o == update_streams(App, sampled)
       IN  /\ SetApp(o.app)
           /\ IF o.panic
              THEN /\ pc' = "panicked"
                   /\ out' = <<>>
              ELSE PrintRender(o.app, <<>>)
    /\ sample' = Asked(App, sampled)
    /\ UNCHANGED <<resize, terminate, ratevars, viewvars>>

\* The process is alive: main has neither returned nor panicked.
Alive == pc \notin {"exited", "panicked"}

\* The ticker thread of chan::tick fires.
TickFire ==
    /\ Alive
    /\ ~update.ready
    /\ update' = [update EXCEPT !.ready = TRUE]
    /\ UNCHANGED <<appvars, pc, interval_changed, arm, event, handled, out, sample, resize, terminate, ratevars, viewvars>>

\* The signal thread forwards SIGWINCH (terminal.rs:53).
Sigwinch ==
    /\ Alive
    /\ resize < MaxPending
    /\ resize' = resize + 1
    /\ UNCHANGED <<appvars, loopvars, terminate, ratevars, viewvars>>

\* The signal thread forwards SIGINT / SIGTERM (terminal.rs:54).
Sigterm ==
    /\ Alive
    /\ terminate < MaxPending
    /\ terminate' = terminate + 1
    /\ UNCHANGED <<appvars, loopvars, resize, ratevars, viewvars>>

\* ------------------------------------------------------ providers/network.rs
\* x / dt of f64 for x > 0, dt in ms (the source divides by dt / 1000.0): a
\* zero dt yields +inf. The readings and elapsed times of the model keep
\* the quotient whole.
RateQuotient(x, dt) == IF dt = 0 THEN NonFinite ELSE Some((x * 1000) \div dt)

\* The closure as it would be without the `input > last_input` test.
RateClosure_unclamped(st, input, t) ==
    IF input.some
    THEN [last_input |-> input, last_time |-> t,
          value |-> IF st.last_input.some
                    THEN (IF input.v = st.last_input.v THEN Some(0)
                          ELSE IF t = st.last_time THEN NonFinite
                          ELSE Some(((input.v - st.last_input.v) * 1000) \div (t - st.last_time)))
                    ELSE None]
    ELSE [last_input |-> None, last_time |-> st.last_time, value |-> None]

\* The closure as it would be if the None arm left last_input alone.
RateClosure_remembering(st, input, t) ==
    IF input.some
    THEN [last_input |-> input, last_time |-> t,
          value |-> IF st.last_input.some
                    THEN (IF input.v > st.last_input.v
                          THEN RateQuotient(input.v - st.last_input.v, t - st.last_time)
                          ELSE Some(0))
                    ELSE None]
    ELSE [last_input |-> st.last_input, last_time |-> st.last_time, value |-> None]

\* The closure rate_calculator returns (network.rs:80-99), called at time t
\* with `value()` returning input: the captured variables it leaves and the
\* value it returns.
RateClosure(st, input, t) ==
    IF input.some
    THEN [last_input |-> input, last_time |-> t,
          value |-> IF st.last_input.some
                    THEN (IF input.v > st.last_input.v
                          THEN RateQuotient(input.v - st.last_input.v, t - st.last_time)
                          ELSE Some(0))
                    ELSE None]
    ELSE [last_input |-> None, last_time |-> st.last_time, value |-> None]

\* The closure is called `elapsed` ms after its previous call (or after
\* rate_calculator returned it), and the counter sampler returns input.
RateCall(input, elapsed) ==
    /\ Len(calls) < MaxCalls
    /\ now' = now + elapsed
    /\ LET r == RateClosure([last_input |-> last_input, last_time |-> last_time], input, now')
       IN  /\ last_input' = r.last_input
           /\ last_time' = r.last_time
           /\ calls' = Append(calls, [input |-> input, time |-> now', value |-> r.value])
    /\ UNCHANGED <<appvars, loopvars, chanvars, viewvars>>

\* ------------------------------------------------- view.rs, function by function
\* A behaviour follows one call: the arguments and what the function returns.
\* The `graph` closure picks the bar of one present number (view.rs:243-255).
BarIndexCall(number, min, max) ==
    /\ viewcall = NoCall
    /\ viewcall' = [f |-> "bar_index", args |-> [number |-> number, min |-> min, max |-> max],
                    result |-> [index |-> bar_index(number, Some(min), Some(max))]]
    /\ UNCHANGED <<appvars, loopvars, chanvars, ratevars>>

\* StreamWrapper::render draws row i of the expanded graph of a stream that
\* declares [min, max] and holds the one sample `number`, one column wide
\* (view.rs:334-355).
RowCellsCall(number, min, max, i) ==
    /\ viewcall = NoCall
    /\ min <= number
    /\ number <= max
    /\ LET s == [StreamWrapper_new EXCEPT !.stream = [min |-> Some(min), max |-> Some(max)],
                                          !.expanded = TRUE,
                                          !.values = <<Some(number)>>]
       IN  viewcall' = [f |-> "graph_row", args |-> [number |-> number, min |-> min, max |-> max, row |-> i],
                        result |-> [symbol |-> RowCells(s, 1, i)[1]]]
    /\ UNCHANGED <<appvars, loopvars, chanvars, ratevars>>

\* format_quantity called on its own (view.rs:453-501). A number printed in
\* full is followed up to 10^MaxPlainExponent.
FormatQuantityCall(quantity, unit, use_prefix, precision) ==
    /\ viewcall = NoCall
    /\ use_prefix \/ quantity.e <= MaxPlainExponent
    /\ viewcall' = [f |-> "format_quantity",
                    args |-> [quantity |-> quantity, unit |-> unit,
                              use_prefix |-> use_prefix, precision |-> precision],
                    result |-> format_quantity(quantity, unit, use_prefix, precision)]
    /\ UNCHANGED <<appvars, loopvars, chanvars, ratevars>>

\* format_duration called on its own (view.rs:503-534), with
\* Duration::as_millis of its argument.
FormatDurationCall(milliseconds) ==
    /\ viewcall = NoCall
    /\ viewcall' = [f |-> "format_duration",
                    args |-> [milliseconds |-> milliseconds],
                    result |-> [parts |-> format_duration(milliseconds)]]
    /\ UNCHANGED <<appvars, loopvars, chanvars, ratevars>>

\* stream.format(value, theme) called on its own (stream.rs:56, 89-98).
StreamFormatCall(stream, value) ==
    /\ viewcall = NoCall
    /\ viewcall' = [f |-> "format",
                    args |-> [stream |-> stream, value |-> value],
                    result |-> [text |-> Stream_format(stream, value)]]
    /\ UNCHANGED <<appvars, loopvars, chanvars, ratevars>>

\* StreamWrapper::render of a stream with the given history.
StreamRenderCall(values, expanded, gw) ==
    /\ viewcall = NoCall
    /\ LET s == [StreamWrapper_new EXCEPT !.values = values, !.expanded = expanded]
       IN  viewcall' = [f |-> "render",
                        args |-> [values |-> values, expanded |-> expanded, graph_width |-> gw],
                        result |-> [lines |-> StreamWrapper_lines(s, gw)]]
    /\ UNCHANGED <<appvars, loopvars, chanvars, ratevars>>

\* ------------------------------------------------------------ specifications
\* Samples the providers return in the specifications of navigation and of
\* the event loop (histories are told apart by their length).
Samples == {Some(1)}
\* Terminal sizes in the specification of the event loop: a height below the
\* two reserved rows, and one that holds an expanded stream.
Widths == {80, 100}
LoopHeights == {1, 8}

\* The event loop: input, resize and ticker.
Init == InitWith(1..MaxLoopStreams, Widths, LoopHeights, Samples)

Next ==
    \/ \E e \in Events : InputRecv(e)
    \/ ResetStreams
    \/ \E sampled \in [1..Len(streams) -> Samples] : Resample(sampled)
    \/ Render
    \/ Retick
    \/ \E w \in Widths, h \in LoopHeights : ResizeRecv(w, h)
    \/ \E sampled \in [1..Len(streams) -> Samples] : UpdateRecv(sampled)
    \/ TickFire
    \/ Sigwinch

Spec == Init /\ [][Next]_vars

\* The event loop with termination signals. The main thread takes the step
\* its position or a ready channel allows, and the ticker thread keeps
\* firing; input and signals arrive as the environment pleases.
NextTerm == Next \/ Sigterm

LoopStep ==
    \/ ResetStreams
    \/ \E sampled \in [1..Len(streams) -> Samples] : Resample(sampled)
    \/ Render
    \/ Retick
    \/ \E w \in Widths, h \in LoopHeights : ResizeRecv(w, h)
    \/ \E sampled \in [1..Len(streams) -> Samples] : UpdateRecv(sampled)

\* The arms of chan_select that stand for a channel of notifications.
ResizeArm == \E w \in Widths, h \in LoopHeights : ResizeRecv(w, h)
UpdateArm == \E sampled \in [1..Len(streams) -> Samples] : UpdateRecv(sampled)

\* chan_select picks at random among the arms that are ready: an arm that is
\* ready again and again is picked eventually.
FairSpec ==
    /\ Init /\ [][NextTerm]_vars
    /\ WF_vars(LoopStep) /\ WF_vars(TickFire)
    /\ SF_vars(ResizeArm) /\ SF_vars(UpdateArm)

\* Navigation: every input event that leaves the interval alone, and resizes
\* to every height.
NavEvents == Events \ {"+", "-"}
NavWidths == {80}

InitNav == InitWith(1..MaxStreams, NavWidths, 0..MaxHeight, Samples)

NextNav ==
    \/ \E e \in NavEvents : InputRecv(e)
    \/ \E w \in NavWidths, h \in 0..MaxHeight : ResizeRecv(w, h)
    \/ Sigwinch

SpecNav == InitNav /\ [][NextNav]_vars

\* Up, Down and resize alone, from the initial state, on terminals that have
\* the two reserved rows.
ScrollHeights == 2..MaxHeight

InitScroll == InitWith(1..MaxStreams, NavWidths, ScrollHeights, Samples)

NextScroll ==
    \/ \E e \in {"Up", "Down"} : InputRecv(e)
    \/ \E w \in NavWidths, h \in ScrollHeights : ResizeRecv(w, h)
    \/ Sigwinch

SpecScroll == InitScroll /\ [][NextScroll]_vars

\* Navigation on terminals tall enough to hold any one stream, expanded or
\* not (1 + EXPANDED_GRAPH_HEIGHT body rows and the two reserved rows).
TallHeights == (1 + EXPANDED_GRAPH_HEIGHT + 2)..(MaxHeight + 1)

InitTall == InitWith(1..MaxStreams, NavWidths, TallHeights, Samples)

NextTall ==
    \/ \E e \in NavEvents : InputRecv(e)
    \/ \E w \in NavWidths, h \in TallHeights : ResizeRecv(w, h)
    \/ Sigwinch

SpecTall == InitTall /\ [][NextTall]_vars

\* Sampling: what the samplers may return, to streams that declare bounds
\* (cpu.rs:47-48) or a minimum only (network.rs:43-44), active or not. The
\* first stream is the CPU stream the CPU provider always returns.
SampleValues == {None, Some(StreamMax), Some(StreamMin - 1), Some(StreamMax + 1), NonFinite}
DeclaredBounds == {[min |-> Some(StreamMin), max |-> Some(StreamMax)],
                   [min |-> Some(StreamMin), max |-> None]}
SampleWidths == {80}
SampleHeights == {8}

InitSampling ==
    \E n \in 1..MaxSampleStreams, w \in SampleWidths, h \in SampleHeights :
      \E declared \in [1..n -> DeclaredBounds], act \in [1..n -> BOOLEAN],
         sampled \in [1..n -> SampleValues] :
        /\ declared[1] = StreamWrapper_new.stream
        /\ Started([Application_new(w, h, n) EXCEPT !.streams =
                        [i \in 1..n |-> [StreamWrapper_new EXCEPT !.stream = declared[i],
                                                                 !.active = act[i]]]],
                   sampled)

NextSampling ==
    \/ InputRecv("-")
    \/ ResetStreams
    \/ \E sampled \in [1..Len(streams) -> SampleValues] : Resample(sampled)
    \/ Render
    \/ Retick
    \/ \E sampled \in [1..Len(streams) -> SampleValues] : UpdateRecv(sampled)
    \/ TickFire

SpecSampling == InitSampling /\ [][NextSampling]_vars

\* Sampling on every tick, and Space to expand and collapse the selected
\* stream: the histories that the graphs of both layouts draw.
NextGraph ==
    \/ InputRecv("Space")
    \/ \E sampled \in [1..Len(streams) -> SampleValues] : UpdateRecv(sampled)
    \/ TickFire

SpecGraph == InitSampling /\ [][NextGraph]_vars

\* Every key and wheel press, with the resample an interval change brings,
\* on a terminal below the two reserved rows and on one that holds an
\* expanded stream.
KeyHeights == {1, MaxHeight}

InitKeys == InitWith(1..MaxStreams, NavWidths, KeyHeights, Samples)

NextKeys ==
    \/ \E e \in Events : InputRecv(e)
    \/ ResetStreams
    \/ \E sampled \in [1..Len(streams) -> Samples] : Resample(sampled)
    \/ Render
    \/ Retick

SpecKeys == InitKeys /\ [][NextKeys]_vars

\* One rate wrapper: the cumulative counter readings its sampler returns (or
\* none), and the whole milliseconds between two calls.
CounterReadings == {100, 140, 150, 200}
CounterSamples == {None} \cup { Some(r) : r \in CounterReadings }
ElapsedMillis == {0, 500, 1000}

InitRate == InitWith({1}, NavWidths, {MaxHeight}, Samples)

NextRate == \E input \in CounterSamples, elapsed \in ElapsedMillis : RateCall(input, elapsed)

SpecRate == InitRate /\ [][NextRate]_vars

\* Up, Down and Space on a terminal of 80 columns and 10 lines.
PressEvents == {"Up", "Down", "Space"}
PressHeights == {10}

InitPress == InitWith(1..MaxStreams, NavWidths, PressHeights, Samples)

NextPress == \E e \in PressEvents : InputRecv(e)

SpecPress == InitPress /\ [][NextPress]_vars

\* The functions of view.rs, each called on its own with arguments drawn
\* from small sets.
Levels == 0..MaxLevel

InitView == InitWith({1}, NavWidths, {MaxHeight}, Samples)

NextView ==
    \/ \E number \in Levels, min \in Levels, max \in Levels : BarIndexCall(number, min, max)
    \/ \E number \in Levels, min \in Levels, max \in Levels :
         \E i \in 0..(EXPANDED_GRAPH_HEIGHT - 1) : RowCellsCall(number, min, max, i)

SpecView == InitView /\ [][NextView]_vars

\* format_quantity on quantities of either sign across the magnitudes, with
\* mantissas that round up into the next order and mantissas that do not.
Mantissas == {1, 5, 15, 25, 999, 1234, 9994, 9995, 9999}
SignedMantissas == Mantissas \cup { 0 - m : m \in Mantissas }
Exponents == (0 - MaxExponent - 1)..MaxExponent
Quantities == { Quantity(m, e) : m \in SignedMantissas, e \in Exponents } \cup {Quantity(0, 0)}
Precisions == 0..MaxPrecision
TestUnit == <<"C">>

NextQuantity ==
    \E quantity \in Quantities, use_prefix \in BOOLEAN, precision \in Precisions :
        FormatQuantityCall(quantity, TestUnit, use_prefix, precision)

SpecQuantity == InitView /\ [][NextQuantity]_vars

\* format_duration on every whole number of seconds up to MaxSeconds, on the
\* durations of test_format_duration, and on durations with a fraction of a
\* second.
TestSeconds == {3599, 3600, 3601, 3660, 3661, 100000}
DurationMillis ==
    { 1000 * t : t \in (0..MaxSeconds) \cup TestSeconds } \cup {1, 500, 1500, 61001}

NextDuration == \E milliseconds \in DurationMillis : FormatDurationCall(milliseconds)

SpecDuration == InitView /\ [][NextDuration]_vars

\* What the samplers return: a CPU load of 0.0 % to 100.0 % in tenths, bytes
\* in use up to the 16 GB installed, a rate of bytes per second, a
\* temperature of -40.0 to 125.0 degrees in tenths, and a fan speed up to
\* MaxFanSpeed RPM (in hundreds, and the largest speed of four digits).
CpuReadings == { Quantity(m, -1) : m \in (10 * StreamMin)..(10 * StreamMax) }
MemoryReadings == { Quantity(m, e) : m \in Mantissas \cup {0}, e \in 0..6 }
NetworkReadings == { Quantity(m, e) : m \in Mantissas \cup {0}, e \in 0..9 }
TemperatureReadings == { Quantity(m, -1) : m \in (0 - 400)..1250 }
FanReadings == { Quantity(m, 0) : m \in { n \in 0..MaxFanSpeed : n % 100 = 0 \/ n = 9999 } }

NextFormat ==
    \/ \E value \in CpuReadings : StreamFormatCall(cpu_stream, value)
    \/ \E value \in MemoryReadings : StreamFormatCall(memory_stream, value)
    \/ \E value \in NetworkReadings : StreamFormatCall(network_stream, value)
    \/ \E value \in TemperatureReadings : StreamFormatCall(temperature_stream, value)
    \/ \E value \in FanReadings : StreamFormatCall(fan_stream, value)

SpecFormat == InitView /\ [][NextFormat]_vars

\* Both screens on terminals of 40 and of 80 columns.
BarEvents == {"Up", "Down", "Space", "s", "Esc"}
BarWidths == {40, 80}

InitBar == InitWith(1..MaxStreams, BarWidths, {MaxHeight}, Samples)

NextBar ==
    \/ \E e \in BarEvents : InputRecv(e)
    \/ \E w \in BarWidths : ResizeRecv(w, MaxHeight)
    \/ Sigwinch

SpecBar == InitBar /\ [][NextBar]_vars

\* StreamWrapper::render on histories shorter and longer than the graph is
\* wide, with absent samples anywhere in them.
WindowSamples == {None, Some(10), Some(60)}
Histories == UNION { [1..n -> WindowSamples] : n \in 0..MaxWindowHistory }
GraphWidths == 1..MaxGraphWidth

NextStream ==
    \E values \in Histories, expanded \in BOOLEAN, gw \in GraphWidths :
        StreamRenderCall(values, expanded, gw)

SpecStream == InitView /\ [][NextStream]_vars

\* The top bar and the ticks on terminals of every width up to MaxWidth, at
\* every interval of the catalog.
TickEvents == {"+", "-"}
TickWidths == 0..MaxWidth

InitTicks == InitWith({1}, TickWidths, {MaxHeight}, Samples)

NextTicks ==
    \/ \E e \in TickEvents : InputRecv(e)
    \/ ResetStreams
    \/ \E sampled \in [1..Len(streams) -> Samples] : Resample(sampled)
    \/ Render
    \/ Retick
    \/ \E w \in TickWidths : ResizeRecv(w, MaxHeight)
    \/ Sigwinch

SpecTicks == InitTicks /\ [][NextTicks]_vars

\* Navigation on an Application built from any number of streams, none
\* included (Application::new takes whatever vector it is given), on a
\* terminal that holds an expanded stream.
InitAnyCount == InitWith(0..MaxStreams, NavWidths, {MaxHeight}, Samples)

NextAnyCount ==
    \/ \E e \in NavEvents : InputRecv(e)
    \/ \E w \in NavWidths : ResizeRecv(w, MaxHeight)
    \/ Sigwinch

SpecAnyCount == InitAnyCount /\ [][NextAnyCount]_vars

\* Navigation, resizes and ticks together, on terminals without the two
\* reserved rows, without body rows, with one body row and with room for an
\* expanded stream.
IndexHeights == {0, 1, 2, 3, MaxHeight}

InitIndex == InitWith(1..MaxSampleStreams, NavWidths, IndexHeights, Samples)

NextIndex ==
    \/ \E e \in NavEvents : InputRecv(e)
    \/ \E w \in NavWidths, h \in IndexHeights : ResizeRecv(w, h)
    \/ \E sampled \in [1..Len(streams) -> Samples] : UpdateRecv(sampled)
    \/ TickFire
    \/ Sigwinch

SpecIndex == InitIndex /\ [][NextIndex]_vars

\* Ticks on both screens, with interval changes between them; a sampler
\* returns a value or nothing.
TickingEvents == {"s", "Esc", "+", "-"}
TickingSamples == {None, Some(StreamMax)}

InitTicking == InitWith(1..MaxSampleStreams, NavWidths, {MaxHeight}, TickingSamples)

NextTicking ==
    \/ \E e \in TickingEvents : InputRecv(e)
    \/ ResetStreams
    \/ \E sampled \in [1..Len(streams) -> TickingSamples] : Resample(sampled)
    \/ Render
    \/ Retick
    \/ \E sampled \in [1..Len(streams) -> TickingSamples] : UpdateRecv(sampled)
    \/ TickFire

SpecTicking == InitTicking /\ [][NextTicking]_vars

\* -------------------------------------------------------------------- claims
\* The loop is waiting in chan_select.
Waiting == pc = "select"

\* The stream the selection points at, and its rows as render labels them.
SelectedRows(a) ==
    LET active == active_streams(a)
    IN  IF a.selection_index >= Len(active) THEN {}
        ELSE { [stream |-> a.selection_index, row |-> r] :
                 r \in 0..(StreamHeight(active[a.selection_index + 1]) - 1) }

Range(seq) == { seq[k] : k \in 1..Len(seq) }

\* C1: after any sequence of Up, Down and resize transitions from the initial
\* state, selection_index lies within the [top_index, bottom_index] range
\* that scroll_to_stream's counting yields for the current scroll_index,
\* scroll_anchor, expanded flags and body height (height - 2).
C1_SelectionInAnchorRange ==
    Waiting =>
        \A r \in VisibleRange(App, height - 2) :
            r.valid /\ r.top <= selection_index /\ selection_index <= r.bottom

\* C2: after every Up, Down, wheel, Space or resize transition, all rows of
\* the selected stream are among the body lines render emits for the
\* resulting state.
C2_SelectedRowsRendered ==
    (/\ Waiting
     /\ \/ arm = "resize"
        \/ arm = "input" /\ event \in {"Up", "Down", "WheelUp", "WheelDown", "Space"})
    => SelectedRows(App) \subseteq Range(RenderBody(App))

\* C3: an input event that changes interval_index is followed by
\* reset_streams before anything samples: every history has length 0 when
\* update_streams is called, and exactly one entry per active stream at the
\* render that follows and until the loop waits again.
C3_IntervalChangeResets ==
    /\ [][interval_index' # interval_index => pc' = "reset"]_vars
    /\ [][pc = "reset" => pc' \in {"reset", "resample"}]_vars
    /\ [](pc = "resample" => \A i \in 1..Len(streams) : Len(streams[i].values) = 0)
    /\ []((pc \in {"render", "retick"} \/ (Waiting /\ interval_changed)) =>
            \A i \in 1..Len(streams) :
                Len(streams[i].values) = IF streams[i].active THEN 1 ELSE 0)

\* The frame of an interval change has been printed with one sample per stream.
C3_Witness ==
    /\ pc = "retick"
    /\ interval_index # 2
    /\ out = <<"frame">>
    /\ \A i \in 1..Len(streams) : Len(streams[i].values) = 1

\* C4: on the Main screen Up at index 0 and Down at the last active index
\* leave the Application unchanged and report false; otherwise the index
\* moves by exactly one, stays within [0, activeCount - 1], and true is reported.
C4_UpDownClamp ==
    [][\A e \in {"Up", "Down"} :
         (screen = "Main" /\ InputRecv(e)) =>
            LET last == Len(active_streams(App)) - 1
                step == IF e = "Up" THEN -1 ELSE 1
                atBound == selection_index = (IF e = "Up" THEN 0 ELSE last)
            IN  IF atBound
                THEN UNCHANGED appvars /\ ~handled'
                ELSE /\ selection_index' = selection_index + step
                     /\ selection_index' \in 0..last
                     /\ handled']_vars

\* C5: interval_index is always an index of the 8-entry catalog. On the Main
\* screen (where '+' and '-' are bound) '+' at the last index and '-' at
\* index 0 leave it unchanged and report false; otherwise it moves by exactly
\* one and true is reported. No other step of the program changes it.
C5_IntervalIndex ==
    /\ [](Len(intervals) = 8 /\ interval_index \in 0..(Len(intervals) - 1))
    /\ [][(screen = "Main" /\ InputRecv("+")) =>
            IF interval_index = Len(intervals) - 1
            THEN interval_index' = interval_index /\ ~handled'
            ELSE interval_index' = interval_index + 1 /\ handled']_vars
    /\ [][(screen = "Main" /\ InputRecv("-")) =>
            IF interval_index = 0
            THEN interval_index' = interval_index /\ ~handled'
            ELSE interval_index' = interval_index - 1 /\ handled']_vars
    /\ [][interval_index' # interval_index =>
            screen = "Main" /\ (InputRecv("+") \/ InputRecv("-"))]_vars

\* '+' has been pressed at the last index of the catalog and was refused.
C5_Witness ==
    /\ Waiting
    /\ arm = "input"
    /\ event = "+"
    /\ ~handled
    /\ out = <<"bell">>
    /\ screen = "Main"
    /\ interval_index = Len(intervals) - 1

\* C6: while the loop waits with a termination notification (SIGINT /
\* SIGTERM) in the terminate channel, it can consume the notification, and
\* consuming it leaves the loop without printing or sampling.
C6_TerminateExits ==
    (Waiting /\ terminate > 0) =>
        ENABLED (/\ NextTerm
                 /\ terminate' < terminate
                 /\ pc' = "exited"
                 /\ out' = <<>>
                 /\ UNCHANGED appvars)

\* C7: whenever the loop waits, the one ticker bound to `update` has the
\* period of the selected interval; a ticker is replaced only by the step
\* that ends the iteration of an interval change, and the ticker installed
\* there has not fired, so a tick of the replaced ticker is never received.
C7_TickerReplaced ==
    /\ [](Waiting => update.period = interval(App).duration)
    /\ [][update'.period # update.period =>
            /\ pc = "retick" /\ pc' = "select"
            /\ update' = tick(interval(App).duration)
            /\ ~update'.ready]_vars
    /\ [][(Waiting /\ update.ready /\ ~update'.ready) =>
            arm' = "update" /\ update.period = interval(App).duration]_vars

\* The loop waits again after an interval change, with the new ticker.
C7_Witness ==
    /\ Waiting
    /\ arm = "input"
    /\ interval_changed
    /\ interval_index # 2
    /\ update = tick(interval(App).duration)

\* C8: when the loop waits again after an input event, it has printed exactly
\* one frame and no bell if handle returned true, and exactly one bell and no
\* frame if handle returned false; it prints nothing else on the way.
C8_FrameOrBell ==
    /\ (Waiting /\ arm = "input") => out = (IF handled THEN <<"frame">> ELSE <<"bell">>)
    /\ (arm = "input" /\ pc \in {"reset", "resample", "render"}) => handled /\ out = <<>>
    /\ (arm = "input" /\ pc = "retick") => handled /\ out = <<"frame">>

\* An input event that changed the interval has been answered by one frame.
C8_Witness ==
    /\ Waiting
    /\ arm = "input"
    /\ event = "-"
    /\ handled
    /\ interval_changed
    /\ out = <<"frame">>

\* C9: 'q' on the Main screen makes handle report shutdown (running = false),
\* and the loop exits on that same event: nothing is printed for it and no
\* step of the program follows.
C9_QuitExits ==
    /\ [][(screen = "Main" /\ InputRecv("q")) => ~running' /\ handled' /\ pc' = "exited"]_vars
    /\ [](~running => pc = "exited" /\ event = "q" /\ out = <<>>)
    /\ [][pc = "exited" => UNCHANGED vars]_vars

\* The loop has been left by 'q'.
C9_Witness ==
    /\ pc = "exited"
    /\ ~running
    /\ arm = "input"
    /\ event = "q"
    /\ out = <<>>

\* C10: the step that receives a resize notification changes width and
\* height only: histories, active and expanded flags, selection, scroll
\* state, interval, screen and running stay as they are.
C10_ResizeFrame ==
    [][resize' < resize =>
         /\ arm' = "resize"
         /\ width' \in Widths /\ height' \in LoopHeights
         /\ UNCHANGED <<running, screen, streams, selection_index, scroll_index,
                        scroll_anchor, interval_index>>]_vars

\* A resize has been received by an Application with an expanded stream and
\* two samples of history, and has changed the stored size.
C10_Witness ==
    /\ Waiting
    /\ arm = "resize"
    /\ width = 100 /\ height = 1
    /\ streams[1].expanded
    /\ Len(streams[1].values) = 2
    /\ interval_index # 2

\* A step in which update_streams is called.
Sampling == UpdateRecv(sample') \/ Resample(sample')

\* C11: each call of update_streams appends exactly one entry, the sampled
\* value or None, to the history of every active stream and leaves the
\* histories of inactive streams and all earlier entries as they were (a call
\* that panics has appended to some of the active streams and to no other);
\* every tick received from the ticker is answered by exactly one call.
C11_AppendOnePerTick ==
    /\ [][Sampling =>
            /\ Len(streams') = Len(streams)
            /\ \A i \in 1..Len(streams) :
                 /\ streams'[i].active = streams[i].active
                 /\ ~streams[i].active => streams'[i].values = streams[i].values
                 /\ streams[i].active =>
                      \/ streams'[i].values = Append(streams[i].values, sample'[i])
                      \/ pc' = "panicked" /\ streams'[i].values = streams[i].values]_vars
    /\ [][(Waiting /\ update.ready /\ ~update'.ready) => UpdateRecv(sample')]_vars
    /\ [][UpdateRecv(sample') => update.ready /\ ~update'.ready]_vars

\* A tick has appended an absent sample to an active stream that already had
\* an entry, next to an inactive stream whose history is still empty.
C11_Witness ==
    /\ Waiting
    /\ arm = "update"
    /\ \E i, j \in 1..Len(streams) :
         /\ ~streams[i].active /\ streams[i].values = <<>>
         /\ streams[j].active /\ streams[j].values = <<Some(StreamMax), None>>
         /\ sample[j] = None

\* A present sample that breaks the provider contract of stream s.
Offending(s, value) ==
    /\ value.some
    /\ \/ ~value.finite
       \/ s.stream.min.some /\ value.v < s.stream.min.v
       \/ s.stream.max.some /\ value.v > s.stream.max.v

\* C12: a call of update_streams in which the sample of an active stream is
\* present and non-finite, below the declared min or above the declared max
\* panics; no history ever holds such a value, and nothing runs after the panic.
C12_ContractViolationFatal ==
    /\ [][(/\ Sampling
            /\ \E i \in 1..Len(streams) :
                   streams[i].active /\ Offending(streams[i], sample'[i]))
           => pc' = "panicked"]_vars
    /\ [](\A i \in 1..Len(streams) : \A k \in 1..Len(streams[i].values) :
            ~Offending(streams[i], streams[i].values[k]))
    /\ [][pc = "panicked" => UNCHANGED vars]_vars

\* A tick has panicked on the sample of the second of two active streams,
\* which is above the declared max, after the sample of the first had been
\* appended.
C12_Witness ==
    /\ pc = "panicked"
    /\ arm = "update"
    /\ Len(streams) = 2
    /\ streams[1].active /\ streams[2].active
    /\ sample[2] = Some(StreamMax + 1)
    /\ Len(streams[1].values) = Len(streams[2].values) + 1

\* C13: when the sample of an active stream is absent and no sample of the
\* call breaks the provider contract, update_streams returns, has appended
\* None for that stream and the sampled value for every other active stream;
\* an absent entry is drawn as DOT in the graph of a collapsed stream and in
\* every graph row of an expanded one, never as a bar.
C13_AbsentSample ==
    /\ [][(/\ Sampling
            /\ (\E i \in 1..Len(streams) : streams[i].active /\ sample'[i] = None)
            /\ (\A i \in 1..Len(streams) :
                   streams[i].active => ~Offending(streams[i], sample'[i])))
           => /\ pc' # "panicked"
              /\ \A i \in 1..Len(streams) :
                   streams[i].active =>
                       streams'[i].values = Append(streams[i].values, sample'[i])]_vars
    /\ [](\A i \in 1..Len(streams) :
            LET s == streams[i]
                gw == graph_width(App)
            IN  \A k \in 1..Len(s.values) :
                  LET c == gw - (Len(s.values) - k)
                  IN  (s.active /\ c >= 1 /\ s.values[k] = None) =>
                        IF s.expanded
                        THEN \A r \in 0..(EXPANDED_GRAPH_HEIGHT - 1) : RowCells(s, gw, r)[c] = DOT
                        ELSE CollapsedCells(s, gw)[c] = DOT)

\* One tick has given an expanded stream an absent sample and the stream
\* next to it a present one.
C13_Witness ==
    /\ Waiting
    /\ arm = "update"
    /\ Len(streams) = 2
    /\ streams[1].active /\ streams[1].expanded
    /\ streams[1].values = <<Some(StreamMax), None>>
    /\ streams[2].active
    /\ streams[2].values = <<None, Some(StreamMax + 1)>>
    /\ sample = <<None, Some(StreamMax + 1)>>

\* The readings of the scenario, one second apart.
ScenarioReadings == <<100, 150, 140, 200>>
ScenarioCalls ==
    /\ Len(calls) = Len(ScenarioReadings)
    /\ \A k \in 1..Len(calls) : calls[k].input = Some(ScenarioReadings[k])
    /\ \A k \in 2..Len(calls) : calls[k].time - calls[k - 1].time = 1000

\* C14: the first call returns None. A call with a present reading that
\* follows a call with a present reading returns 0 when the counter did not
\* increase, and when it increased over dt > 0 ms the rate whose product with
\* dt / 1000 is the increase; no finite rate is negative. The readings
\* 100, 150, 140, 200 at 1 s spacing return None, 50, 0, 60.
C14_RateOfIncrease ==
    /\ \A k \in 1..Len(calls) :
          /\ k = 1 => calls[k].value = None
          /\ (calls[k].value.some /\ calls[k].value.finite) => calls[k].value.v >= 0
          /\ (k > 1 /\ calls[k].input.some /\ calls[k - 1].input.some) =>
                LET dt == calls[k].time - calls[k - 1].time
                    increase == calls[k].input.v - calls[k - 1].input.v
                IN  IF increase > 0
                    THEN dt > 0 => /\ calls[k].value.some
                                   /\ calls[k].value.finite
                                   /\ calls[k].value.v * dt = increase * 1000
                    ELSE calls[k].value = Some(0)
    /\ ScenarioCalls =>
          [k \in 1..Len(calls) |-> calls[k].value] = <<None, Some(50), Some(0), Some(60)>>

\* The scenario has been played, the last two readings half a second apart
\* before it (the wrapper was built at time 0 and first called at 500 ms).
C14_Witness ==
    /\ ScenarioCalls
    /\ calls[1].time = 500
    /\ calls[4].value = Some(60)

\* C15: a call in which the counter sampler returns None returns None and
\* leaves last_input None; the call after it returns None whatever it reads;
\* a call returns a rate exactly when it and the call before it both had a
\* present reading.
C15_AbsentForgets ==
    /\ last_input = (IF calls = <<>> THEN None ELSE calls[Len(calls)].input)
    /\ \A k \in 1..Len(calls) :
          /\ ~calls[k].input.some => calls[k].value = None
          /\ (k > 1 /\ ~calls[k - 1].input.some) => calls[k].value = None
          /\ calls[k].value.some <=>
                (k > 1 /\ calls[k].input.some /\ calls[k - 1].input.some)

\* A reading, no reading, and two readings: only the last call returns a rate.
C15_Witness ==
    /\ Len(calls) = 4
    /\ calls[1].input = Some(100) /\ calls[1].value = None
    /\ calls[2].input = None /\ calls[2].value = None
    /\ calls[3].input = Some(150) /\ calls[3].value = None
    /\ calls[4].input = Some(200) /\ calls[4].time - calls[3].time = 500
    /\ calls[4].value = Some(100)

\* The stream BandwidthStreamProvider builds around the wrapper (network.rs:43-44).
BandwidthStream ==
    [StreamWrapper_new EXCEPT !.stream = [min |-> Some(0), max |-> None]]

\* C16: every value the rate wrapper returns is None or a finite number
\* >= 0, whatever the readings and the whole milliseconds between two calls
\* (0 ms included), so the assertions of update_streams accept it.
C16_RateFinite ==
    \A k \in 1..Len(calls) :
        /\ calls[k].value.some => (calls[k].value.finite /\ calls[k].value.v >= 0)
        /\ SampleAccepted(BandwidthStream, calls[k].value)

\* The step leaves what the outcome o of handle says: the Application and the
\* result, or a panic.
StepOf(o) ==
    IF o.panic THEN pc' = "panicked" /\ UNCHANGED appvars
    ELSE App' = o.app /\ handled' = o.result

\* C17: on the Main screen, in every state, a wheel-up press has the outcomes
\* of the Down key (the same Application left, the same result, the same
\* panic) and a wheel-down press those of the Up key; the step that receives
\* a wheel press is a step the aliased key could have made.
C17_WheelAliases ==
    /\ [](screen = "Main" =>
            /\ handle(App, "WheelUp") = handle(App, "Down")
            /\ handle(App, "WheelDown") = handle(App, "Up"))
    /\ [][(screen = "Main" /\ InputRecv("WheelUp")) =>
            \E o \in handle(App, "Down") : StepOf(o)]_vars
    /\ [][(screen = "Main" /\ InputRecv("WheelDown")) =>
            \E o \in handle(App, "Up") : StepOf(o)]_vars

\* A wheel-up press has moved the selection down to the last stream and
\* scrolled to it.
C17_Witness ==
    /\ Waiting
    /\ arm = "input"
    /\ event = "WheelUp"
    /\ handled
    /\ selection_index = Len(streams) - 1
    /\ scroll_index = selection_index
    /\ scroll_anchor = "Bottom"

\* C18: on the Streams screen every event but Esc leaves the Application as
\* it is and reports false; Esc sets the screen to Main, reports true and
\* changes nothing else.
C18_StreamsScreenInert ==
    [][\A e \in Events :
         (screen = "Streams" /\ InputRecv(e)) =>
            IF e = "Esc"
            THEN /\ screen' = "Main"
                 /\ handled'
                 /\ UNCHANGED <<running, width, height, streams, selection_index,
                                scroll_index, scroll_anchor, interval_index>>
            ELSE /\ UNCHANGED appvars
                 /\ ~handled'
                 /\ out' = <<"bell">>]_vars

\* 'q' has been pressed on the Streams screen and was answered by the bell.
C18_Witness ==
    /\ Waiting
    /\ screen = "Streams"
    /\ arm = "input"
    /\ event = "q"
    /\ ~handled
    /\ running
    /\ out = <<"bell">>

\* The parts of the Application that handle writes.
Handleable(a) ==
    <<a.selection_index, a.scroll_index, a.scroll_anchor,
      [i \in 1..Len(a.streams) |-> a.streams[i].expanded],
      a.screen, a.interval_index, a.running>>

\* C19: for every event and every state in which the loop can call handle,
\* when handle returns false it has left the Application as it was, and when
\* it returns true at least one of selection, scroll state, expanded flags,
\* screen, interval index or running differs; the loop records that result.
C19_ResultTellsChange ==
    /\ [](Waiting =>
            \A e \in Events : \A o \in handle(App, e) :
                ~o.panic =>
                    /\ (~o.result => o.app = App)
                    /\ (o.result => Handleable(o.app) # Handleable(App)))
    /\ [][\A e \in Events :
            (InputRecv(e) /\ pc' # "panicked") =>
                (handled' <=> Handleable(App)' # Handleable(App))]_vars

\* Down has been refused at the last of two streams, with the interval at
\* the end of the catalog.
C19_Witness ==
    /\ Waiting
    /\ arm = "input"
    /\ event = "Down"
    /\ ~handled
    /\ Len(streams) = 2
    /\ selection_index = 1
    /\ interval_index = Len(intervals) - 1

\* C20: Space on the Main screen flips the expanded flag of the stream at
\* selection_index of the active list and of no other stream, leaves
\* histories, selection_index and interval_index as they were, reports true,
\* and leaves the scroll state scroll_to_stream yields for the selection.
C20_SpaceToggles ==
    [][(screen = "Main" /\ InputRecv("Space")) =>
         LET pos == ActivePositions(streams, 1)
             p == pos[selection_index + 1]
             flipped == [App EXCEPT !.streams[p].expanded = ~streams[p].expanded]
         IN  /\ handled'
             /\ Len(streams') = Len(streams)
             /\ \A i \in 1..Len(streams) :
                  /\ streams'[i].expanded =
                        (IF i = p THEN ~streams[i].expanded ELSE streams[i].expanded)
                  /\ streams'[i].values = streams[i].values
             /\ selection_index' = selection_index
             /\ interval_index' = interval_index
             /\ \E o \in scroll_to_stream(flipped, selection_index) :
                  ~o.panic /\ App' = o.app]_vars

\* Three active collapsed streams on a terminal of 80 x 10, scrolled to the
\* top as Application::new leaves it.
ThreeCollapsedAtTop ==
    /\ Waiting
    /\ screen = "Main"
    /\ width = 80
    /\ height = 10
    /\ Len(streams) = 3
    /\ \A i \in 1..3 : streams[i].active /\ ~streams[i].expanded
    /\ scroll_index = 0
    /\ scroll_anchor = "Top"

\* C21: with 3 active collapsed streams on a terminal of 80 x 10 and the
\* initial scroll state (scroll_index 0, anchor Top), each of the two Down
\* presses from selection 0 moves the selection by one, to 2, and leaves
\* scroll_index and scroll_anchor as they were; Space at selection 2 then
\* expands stream 2, whose row count goes from 1 to 6, and leaves a scroll
\* state under which the body has at most 8 lines and holds all 6 rows of
\* stream 2.
C21_DownDownSpace ==
    /\ [][(ThreeCollapsedAtTop /\ selection_index \in {0, 1} /\ InputRecv("Down")) =>
            /\ pc' = "select"
            /\ selection_index' = selection_index + 1
            /\ scroll_index' = scroll_index
            /\ scroll_anchor' = scroll_anchor
            /\ streams' = streams]_vars
    /\ [][(ThreeCollapsedAtTop /\ selection_index = 2 /\ InputRecv("Space")) =>
            /\ pc' = "select"
            /\ selection_index' = 2
            /\ StreamHeight(streams[3]) = 1
            /\ streams'[3].expanded
            /\ StreamHeight(streams'[3]) = 6
            /\ Len(RenderBody(App')) <= 8
            /\ Cardinality(SelectedRows(App')) = 6
            /\ SelectedRows(App') \subseteq Range(RenderBody(App'))]_vars

\* The state after Down, Down, Space: selection 2, stream 2 alone expanded.
C21_Witness ==
    /\ Waiting
    /\ height = 10
    /\ Len(streams) = 3
    /\ arm = "input"
    /\ event = "Space"
    /\ handled
    /\ selection_index = 2
    /\ ~streams[1].expanded
    /\ ~streams[2].expanded
    /\ streams[3].expanded
    /\ scroll_index = 0
    /\ scroll_anchor = "Top"

\* Some history has reached the bound the model follows histories to.
HistoryFull == \E i \in 1..Len(streams) : Len(streams[i].values) >= MaxHistory

\* A notification buffered in the resize channel is eventually received.
ResizeServed == (resize > 0) ~> (resize = 0 \/ ~Alive)

\* A tick that is ready is eventually received, or dropped with its ticker.
TickServed == update.ready ~> (~update.ready \/ ~Alive \/ HistoryFull)

\* A notification buffered in the terminate channel is eventually received.
TerminateServed == (terminate > 0) ~> (terminate = 0 \/ ~Alive \/ HistoryFull)

\* C22: under fair selection among the ready arms no event source of the
\* loop is starved: as long as the process lives (and the histories stay
\* within MaxHistory), a resize notification, a tick and a termination
\* notification that are ready are each consumed eventually, whatever else
\* keeps arriving. (A decoded input event is consumed by the step that
\* delivers it.)
C22_NoSourceStarved == ResizeServed /\ TickServed /\ TerminateServed

\* The least whole number that is at least n / d, for d > 0 and n >= 0.
CeilDiv(n, d) == CHOOSE k \in 0..n : k * d >= n /\ (k - 1) * d < n

\* C23: for a present value v in the row range [lo, hi] with lo < hi the
\* glyph index is max(ceil(((v - lo) / (hi - lo)) * 8) - 1, 0), which is 0
\* for v = lo, 7 for v = hi and within 0..7 throughout; with lo = hi every
\* present value yields index 0.
C23_BarIndex ==
    viewcall.f = "bar_index" =>
        LET v == viewcall.args.number
            lo == viewcall.args.min
            hi == viewcall.args.max
            index == viewcall.result.index
        IN  /\ (lo < hi /\ lo <= v /\ v <= hi) =>
                 /\ index = Max(CeilDiv((v - lo) * 8, hi - lo) - 1, 0)
                 /\ index \in 0..7
                 /\ v = lo => index = 0
                 /\ v = hi => index = 7
            /\ lo = hi => index = 0

\* A value strictly inside a proper range has been bucketed to a glyph
\* strictly between the lowest and the highest.
C23_Witness ==
    /\ viewcall.f = "bar_index"
    /\ viewcall.args.min < viewcall.args.number
    /\ viewcall.args.number < viewcall.args.max
    /\ viewcall.result.index \in 1..6

\* v clamped into [lo, hi].
Clamp(v, lo, hi) == IF v < lo THEN lo ELSE IF v > hi THEN hi ELSE v

\* C24: in each of the 5 bands [row_min, row_max] of the expanded view a
\* present sample outside the band is clamped into it before bucketing (a
\* value above row_max is bucketed as row_max, a value below row_min as
\* row_min), so the sample is drawn as a bar glyph, never as the no-data
\* marker, in every band. Bounds and values are taken times
\* EXPANDED_GRAPH_HEIGHT, as RowCells holds them.
C24_ClampedIntoBand ==
    viewcall.f = "graph_row" =>
        LET v == EXPANDED_GRAPH_HEIGHT * viewcall.args.number
            min == viewcall.args.min
            max == viewcall.args.max
            i == viewcall.args.row
            row_min == EXPANDED_GRAPH_HEIGHT * min + (max - min) * i
            row_max == row_min + (max - min)
        IN  /\ viewcall.result.symbol # DOT
            /\ viewcall.result.symbol =
                 BARS[bar_index(Clamp(v, row_min, row_max), Some(row_min), Some(row_max)) + 1]

\* floor(log10(|value|) / 3), plus one when |value| rounded to the precision
\* carries into the next order: the magnitude that keeps at most three
\* digits before the point.
CarriedMagnitude(quantity, precision) ==
    LET magnitude == FloorLog1000(quantity)
    IN  IF Fixed(quantity, magnitude, precision).whole >= 1000
        THEN magnitude + 1 ELSE magnitude

\* C26: format_quantity with use_prefix on, for every finite nonzero value
\* of either sign: the magnitude is floor(log10(|value|) / 3), one more when
\* rounding to the precision would carry into the next order, so the printed
\* number has at most three digits before the point (|printed number| < 1000).
C26_ThreeIntegerDigits ==
    (/\ viewcall.f = "format_quantity"
     /\ viewcall.args.use_prefix
     /\ viewcall.args.quantity.m # 0)
    => /\ viewcall.result.number.whole < 1000
       /\ viewcall.result.prefix =
            format_prefix(CarriedMagnitude(viewcall.args.quantity, viewcall.args.precision))

\* C27: format_quantity prints no prefix for magnitude 0, which is the
\* magnitude of the value 0 and of every call with use_prefix off; for a
\* magnitude m > 0 the m-th of k, M, G, T, P, E; for m < 0 the |m|-th of
\* m, micro, n, p, f, a; and '?' for every magnitude with |m| - 1 >= 6.
C27_PrefixSelection ==
    viewcall.f = "format_quantity" =>
        LET m == format_magnitude(viewcall.args.quantity, viewcall.args.use_prefix,
                                  viewcall.args.precision)
            prefix == viewcall.result.prefix
        IN  /\ (~viewcall.args.use_prefix \/ viewcall.args.quantity.m = 0) => m = 0
            /\ m = 0 => prefix = ""
            /\ m \in 1..6 => prefix = <<"k", "M", "G", "T", "P", "E">>[m]
            /\ (0 - m) \in 1..6 => prefix = <<"m", "U+00B5", "n", "p", "f", "a">>[0 - m]
            /\ Abs(m) - 1 >= 6 => prefix = "?"

\* A quantity of 10^21 or more has been printed with the prefix '?'.
C27_Witness ==
    /\ viewcall.f = "format_quantity"
    /\ viewcall.args.use_prefix
    /\ viewcall.args.quantity.m > 0
    /\ viewcall.args.quantity.e >= 21
    /\ viewcall.result.prefix = "?"

\* The components h, m, s of t seconds, those of value 0 left out.
NonZeroParts(t) ==
    SelectSeq(<< [whole |-> t \div 3600, millis |-> 0, unit |-> "h"],
                 [whole |-> (t % 3600) \div 60, millis |-> 0, unit |-> "m"],
                 [whole |-> t % 60, millis |-> 0, unit |-> "s"] >>,
              LAMBDA part : part.whole # 0)

\* C28: format_duration on a whole number of seconds t prints 0s for t = 0;
\* otherwise it prints, in the order h, m, s, the components floor(t / 3600),
\* floor((t mod 3600) / 60) and t mod 60, each followed by its unit, leaving
\* out every component whose value is 0.
C28_DurationParts ==
    (viewcall.f = "format_duration" /\ viewcall.args.milliseconds % 1000 = 0) =>
        LET t == viewcall.args.milliseconds \div 1000
        IN  viewcall.result.parts =
              IF t = 0 THEN << [whole |-> 0, millis |-> 0, unit |-> "s"] >>
              ELSE NonZeroParts(t)

\* 100000 s has been printed as 27h46m40s.
C28_Witness ==
    /\ viewcall.f = "format_duration"
    /\ viewcall.args.milliseconds = 100000 * 1000
    /\ viewcall.result.parts = << [whole |-> 27, millis |-> 0, unit |-> "h"],
                                  [whole |-> 46, millis |-> 0, unit |-> "m"],
                                  [whole |-> 40, millis |-> 0, unit |-> "s"] >>

\* C25: for every stream built by Stream::new and every value its sampler
\* can produce or that lies within its declared bounds, the printed width of
\* format(v) is at most format_width (sign slot, digits before the decimal
\* point, point and decimals, prefix slot, unit), so that the value fits the
\* column render pads it to.
C25_FormatFits ==
    viewcall.f = "format" =>
        QuantityWidth(viewcall.result.text) <= viewcall.args.stream.format_width

\* C29: every frame render produces, on either screen and for every
\* terminal size, consists of exactly `height` lines (the top line, the
\* body, the bottom bar), each of printed width exactly `width`.
C29_FrameFillsTerminal ==
    (Waiting /\ ~TopBarPanics(App)) =>
        /\ Len(Frame(App)) = height
        /\ \A k \in 1..Len(Frame(App)) : Frame(App)[k] = width

\* C30: the bottom bar has printed width exactly `width`, for every
\* terminal width and on both screens.
C30_BottomBarFillsWidth ==
    Waiting => BottomBarWidth(App) = width

RenderCalled == viewcall.f = "render"

\* The stream StreamWrapper::render was called on, holding `values` as its history.
RenderedStream(values) ==
    [StreamWrapper_new EXCEPT !.values = values, !.expanded = viewcall.args.expanded]

\* The lines of the rendered stream that hold a graph row.
GraphLines == IF viewcall.args.expanded THEN 2..Len(viewcall.result.lines) ELSE {1}

\* The symbol line k shows for a history entry drawn on its own.
SymbolAlone(entry, k) ==
    IF viewcall.args.expanded
    THEN RowCells(RenderedStream(<<entry>>), 1, EXPANDED_GRAPH_HEIGHT - (k - 1))[1]
    ELSE CollapsedCells(RenderedStream(<<entry>>), 1)[1]

\* C31: every graph row has graph_width columns; column c (0 = leftmost)
\* shows history entry len - (graph_width - c) when the history has that
\* entry and the no-data marker otherwise, so that the rightmost column is
\* the newest entry and only the newest graph_width entries are drawn.
C31_NewestEntriesDrawn ==
    RenderCalled =>
        LET values == viewcall.args.values
            gw == viewcall.args.graph_width
        IN  \A k \in GraphLines :
                /\ Len(viewcall.result.lines[k].graph) = gw
                /\ \A c \in 0..(gw - 1) :
                       LET entry == Len(values) - (gw - c)
                       IN  viewcall.result.lines[k].graph[c + 1] =
                               IF entry >= 0 THEN SymbolAlone(values[entry + 1], k) ELSE DOT

\* A history of three samples drawn two columns wide: the oldest does not appear.
C31_Witness ==
    /\ RenderCalled
    /\ ~viewcall.args.expanded
    /\ viewcall.args.graph_width = 2
    /\ viewcall.args.values = <<Some(60), Some(10), None>>
    /\ viewcall.result.lines[1].graph = <<BARS[1], DOT>>

\* C32: the value column shows the formatted last entry of the history, and
\* nothing when that entry is absent.
C32_ValueIsLastEntry ==
    RenderCalled =>
        LET values == viewcall.args.values
        IN  viewcall.result.lines[1].right =
                IF values # <<>> /\ values[Len(values)].some
                THEN <<Formatted(values[Len(values)].v, 1)>>
                ELSE <<>>

\* The positions of the present samples among the last gw history entries.
PresentInWindow(values, gw) ==
    { k \in 1..Len(values) : k > Len(values) - gw /\ values[k].some }

\* C33: in the expanded view lo, hi and avg are the minimum, the maximum and
\* the arithmetic mean of the present samples among the last graph_width
\* history entries; without a present sample there the tag and the three
\* values are left out.
C33_StatsOfWindow ==
    (RenderCalled /\ viewcall.args.expanded) =>
        LET values == viewcall.args.values
            present == PresentInWindow(values, viewcall.args.graph_width)
            total == Sum([k \in 1..Len(values) |-> IF k \in present THEN values[k].v ELSE 0])
            right(y) == viewcall.result.lines[y + 2].right
            y_max == EXPANDED_GRAPH_HEIGHT - 1
        IN  IF present = {}
            THEN \A y \in 0..y_max : right(y) = <<>>
            ELSE /\ right(y_max - 3) = <<STATS_LABEL>>
                 /\ \E k \in present :
                        /\ \A j \in present : values[k].v <= values[j].v
                        /\ right(y_max - 2) = <<Formatted(values[k].v, 1)>>
                 /\ \E k \in present :
                        /\ \A j \in present : values[k].v >= values[j].v
                        /\ right(y_max - 1) = <<Formatted(values[k].v, 1)>>
                 /\ Len(right(y_max)) = 1
                 /\ right(y_max)[1].text = "format"
                 /\ right(y_max)[1].n * Cardinality(present) = total * right(y_max)[1].d

\* An old sample of 60 outside a window that holds only a sample of 10.
C33_Witness ==
    /\ RenderCalled
    /\ viewcall.args.expanded
    /\ viewcall.args.graph_width = 2
    /\ viewcall.args.values = <<Some(60), None, Some(10)>>
    /\ viewcall.result.lines[EXPANDED_GRAPH_HEIGHT + 1].right = <<Formatted(10, 1)>>

\* C34: height(), the row count of the scroll layout, is the number of lines
\* StreamWrapper::render returns for the stream.
C34_HeightIsLineCount ==
    RenderCalled =>
        StreamHeight(RenderedStream(viewcall.args.values)) = Len(viewcall.result.lines)

C34_Witness ==
    /\ RenderCalled
    /\ viewcall.args.expanded
    /\ Len(viewcall.result.lines) = 1 + EXPANDED_GRAPH_HEIGHT

\* C35: the top-bar label of k * tick_spacing starts in the screen column of
\* the graph column k * tick_spacing left of the graph's right edge, "Now"
\* starts in the column of the rightmost graph column, and these are the
\* columns drawn as tick intersections in graph rows and in empty lines.
C35_TicksAligned ==
    LET a == App
        right_edge == graph_width(a) - 1
        labelled == { LabelColumn(a, k) : k \in 1..full_intervals(a) } \cup {NowColumn(a)}
    IN  /\ \A k \in 1..full_intervals(a) :
               /\ right_edge - k * interval(a).tick_spacing >= 0
               /\ LabelColumn(a, k) = GraphColumn(a, right_edge - k * interval(a).tick_spacing)
        /\ NowColumn(a) = GraphColumn(a, right_edge)
        /\ GraphTickColumns(a) = labelled
        /\ EmptyLineTickColumns(a) = labelled

\* A frame printed at ticks 12 columns apart with four labels and "Now".
C35_Witness ==
    /\ pc = "select"
    /\ out = <<"frame">>
    /\ interval(App).tick_spacing = 12
    /\ full_intervals(App) = 4
    /\ first_tick_padding(App) > name_width(App) + 1

C37_ReflowNeverUnderflows ==
    [][(/\ screen = "Main"
        /\ Len(active_streams(App)) > 0
        /\ \E e \in {"Up", "Down", "Space", "WheelUp", "WheelDown"} : InputRecv(e))
       => \A o \in handle(App, event') : ~o.panic]_vars

\* C38: with an active stream, scroll_index is an index of the active list
\* after every input, resize and tick, and the indices render visits
\* (scroll_index.. for Top, 0..=scroll_index for Bottom) are all in the list.
C38_ScrollIndexValid ==
    Len(active_streams(App)) > 0 =>
        /\ scroll_index < Len(active_streams(App))
        /\ \A k \in 1..Len(RenderIndices(App)) :
               RenderIndices(App)[k] < Len(active_streams(App))

\* The list scrolled to its last stream, and a tick served after that.
C38_Witness ==
    /\ Waiting
    /\ arm = "update"
    /\ scroll_anchor = "Bottom"
    /\ scroll_index = Len(active_streams(App)) - 1
    /\ scroll_index > 0

\* The lengths of the histories of the active streams.
ActiveLengths == { Len(streams[i].values) : i \in { j \in 1..Len(streams) : streams[j].active } }

\* chan_select takes a tick off the ticker's channel (a ticker replaced
\* after an interval change takes its unread tick with it).
TickConsumed == pc = "select" /\ update.ready /\ ~update'.ready

\* C39: whenever a frame is rendered (about to be, just printed, or on
\* screen while the loop waits) the histories of the active streams have one
\* length; it is 1 at the first frame and at the frame that follows an
\* interval change, grows by one with every tick consumed, on the Streams
\* screen as on Main, and changes with nothing else: 1 plus the ticks
\* consumed since startup or the last interval change.
C39_HistoriesCountTicks ==
    /\ [](pc \in {"select", "render", "retick"} => Cardinality(ActiveLengths) <= 1)
    /\ []((Waiting /\ arm = "none") => ActiveLengths = {1})
    /\ [](pc = "render" => ActiveLengths = {1})
    /\ [][(TickConsumed /\ pc' = "select") =>
             \A i \in 1..Len(streams) :
                streams[i].active => Len(streams'[i].values) = Len(streams[i].values) + 1]_vars
    /\ [][(~TickConsumed /\ pc \notin {"reset", "resample"}) =>
             \A i \in 1..Len(streams) : streams'[i].values = streams[i].values]_vars

\* After an interval change and on the Streams screen, a tick has brought
\* the histories of two streams to two entries each.
C39_Witness ==
    /\ Waiting
    /\ screen = "Streams"
    /\ arm = "update"
    /\ interval_index = 1
    /\ Len(streams) = 2
    /\ ActiveLengths = {2}

====
